---- MODULE Spec2Model ----
(***************************************************************************)
(* A model of the Scheme interpreter of src/lisplab.py: the chained        *)
(* environment frames, the Pair heap, closures, and the tree-walking       *)
(* evaluator `evaluate`, driven by calls evaluate(tree, frame) on parsed   *)
(* expression trees.                                                       *)
(***************************************************************************)
EXTENDS Integers, Sequences, FiniteSets, TLC

VARIABLES
    frames,   \* the live Frame objects; frames[1] is `builtins`
    pairs,    \* the live Pair objects
    held,     \* the frames the caller holds (g_frame of the REPL, ...)
    last      \* the call made from outside that has just returned, or Idle

vars == <<frames, pairs, held, last>>

---------------------------------------------------------------------------
(* Bounds of the model.                                                    *)

MaxFrames == 5
MaxEnvs == 1
MaxPairs == 2
MaxNum == 20
MaxSource == 5   \* characters of a source text
MaxTokens == 4   \* tokens of a token list
MaxList == 3     \* elements of a list given to list-ref

---------------------------------------------------------------------------
(* Parsed expression trees: Python str, int and list.                      *)

Sym(s) == [k |-> "sym", s |-> s]
Num(n) == [k |-> "num", n |-> n]
Lst(xs) == [k |-> "list", xs |-> xs]

IsSym(tree, s) == tree.k = "sym" /\ tree.s = s

(* Number of items of a list tree, and whether tree[i] (0-based) exists.   *)
Size(tree) == Len(tree.xs)
Has(tree, i) == i < Len(tree.xs)
At(tree, i) == tree.xs[i + 1]

(* tree[i:], as a sequence of trees *)
From(tree, i) == SubSeq(tree.xs, i + 1, Len(tree.xs))

---------------------------------------------------------------------------
(* Run-time values: int, the strings '#t' and '#f', the empty Python list, *)
(* references to Pair objects, Function objects, builtin callables.        *)

VNum(n) == [t |-> "num", n |-> n]
VStr(s) == [t |-> "str", s |-> s]
VNil == [t |-> "nil"]
VPair(id) == [t |-> "pair", id |-> id]
VFn(params, body, enc_frame) ==
    [t |-> "fn", params |-> params, body |-> body, enc_frame |-> enc_frame]
VBuiltin(name) == [t |-> "builtin", name |-> name]
NoVal == [t |-> "none"]

booleans == <<"#t", "#f">>

(* faulty variant: no token is taken as a literal *)
IsBoolTok_never(tree) == FALSE

IsBoolTok(tree) == tree.k = "sym" /\ (tree.s = booleans[1] \/ tree.s = booleans[2])

None == 0

---------------------------------------------------------------------------
(* Outcomes of a call: a value, or the class of the exception raised.      *)

Ret(st, v) == [st |-> st, kind |-> "ok", val |-> v]
Raise(st, kind) == [st |-> st, kind |-> kind, val |-> NoVal]

---------------------------------------------------------------------------
(* class Frame                                                             *)

NoVars == [n \in {} |-> NoVal]

Frame(parent_frame) == [variables |-> NoVars, parent_frame |-> parent_frame]

Bind(variables, var_name, exp) ==
    [n \in (DOMAIN variables) \cup {var_name} |->
        IF n = var_name THEN exp ELSE variables[n]]

(* faulty variant: the binding is made in the root frame *)
define_var_in_root(fs, self, var_name, exp) ==
    [fs EXCEPT ![1].variables = Bind(@, var_name, exp)]

define_var(fs, self, var_name, exp) ==
    [fs EXCEPT ![self].variables = Bind(@, var_name, exp)]

RECURSIVE search_frames(_, _, _)
(* faulty variant: the enclosing frames are searched before the frame itself *)
search_frames_outer_first(fs, self, var_name) ==
    LET outer == IF fs[self].parent_frame # None
                 THEN search_frames(fs, fs[self].parent_frame, var_name)
                 ELSE [kind |-> "SchemeNameError", val |-> NoVal]
    IN  IF outer.kind = "ok" THEN outer
        ELSE IF var_name \in DOMAIN fs[self].variables
             THEN [kind |-> "ok", val |-> fs[self].variables[var_name]]
             ELSE outer

search_frames(fs, self, var_name) ==
    IF var_name \in DOMAIN fs[self].variables
    THEN [kind |-> "ok", val |-> fs[self].variables[var_name]]
    ELSE IF fs[self].parent_frame # None
         THEN search_frames(fs, fs[self].parent_frame, var_name)
         ELSE [kind |-> "SchemeNameError", val |-> NoVal]

RECURSIVE find_nearest(_, _, _)
(* faulty variant: the frame the search started from is returned *)
find_nearest_self(fs, self, var_name) ==
    IF var_name \in DOMAIN fs[self].variables
    THEN [kind |-> "ok", frame |-> self]
    ELSE IF fs[self].parent_frame # None
         THEN [kind |-> find_nearest(fs, fs[self].parent_frame, var_name).kind,
               frame |-> self]
         ELSE [kind |-> "SchemeNameError", frame |-> None]

find_nearest(fs, self, var_name) ==
    IF var_name \in DOMAIN fs[self].variables
    THEN [kind |-> "ok", frame |-> self]
    ELSE IF fs[self].parent_frame # None
         THEN find_nearest(fs, fs[self].parent_frame, var_name)
         ELSE [kind |-> "SchemeNameError", frame |-> None]

(* faulty variant: the binding is removed from the nearest frame on the    *)
(* chain that defines the name                                             *)
delete_nearest(fs, self, var_name) ==
    LET nearest == find_nearest(fs, self, var_name)
    IN  IF nearest.kind = "ok"
        THEN [kind |-> "ok", val |-> fs[nearest.frame].variables[var_name],
              frames |-> [fs EXCEPT ![nearest.frame].variables =
                            [n \in (DOMAIN @) \ {var_name} |-> @[n]]]]
        ELSE [kind |-> "SchemeNameError", val |-> NoVal, frames |-> fs]

delete(fs, self, var_name) ==
    IF var_name \in DOMAIN fs[self].variables
    THEN [kind |-> "ok", val |-> fs[self].variables[var_name],
          frames |-> [fs EXCEPT ![self].variables =
                        [n \in (DOMAIN @) \ {var_name} |-> @[n]]]]
    ELSE [kind |-> "SchemeNameError", val |-> NoVal, frames |-> fs]

---------------------------------------------------------------------------
(* The elements of the Pairs linked from v by cdr, and the value that ends *)
(* the chain: nil for a proper list.                                       *)
RECURSIVE ListElems(_, _)
ListElems(ps, v) ==
    IF v.t = "pair" THEN <<ps[v.id].car>> \o ListElems(ps, ps[v.id].cdr) ELSE <<>>

RECURSIVE ListEnd(_, _)
ListEnd(ps, v) == IF v.t = "pair" THEN ListEnd(ps, ps[v.id].cdr) ELSE v

---------------------------------------------------------------------------
(* Built-in functions.  Each takes the list of evaluated arguments.  The   *)
(* outcome "Unmodelled" marks a case this model does not cover (float      *)
(* results, str and list operands of *, the identity of two Function       *)
(* objects with the same fields); the actions below never take a step      *)
(* whose evaluation reaches it.  append calls evaluate and is defined with *)
(* it below.                                                               *)

BRet(v) == [kind |-> "ok", val |-> v]
BRaise(kind) == [kind |-> kind, val |-> NoVal]

IsNum(v) == v.t = "num"
AllNum(args) == \A i \in 1..Len(args) : IsNum(args[i])

RECURSIVE SumSeq(_)
SumSeq(args) == IF args = <<>> THEN 0 ELSE Head(args).n + SumSeq(Tail(args))

RECURSIVE ProdSeq(_)
ProdSeq(args) == IF args = <<>> THEN 1 ELSE Head(args).n * ProdSeq(Tail(args))

(* "+": sum *)
builtin_add(args) ==
    IF AllNum(args) THEN BRet(VNum(SumSeq(args))) ELSE BRaise("TypeError")

(* "-" *)
builtin_sub(args) ==
    IF Len(args) = 0 THEN BRaise("IndexError")
    ELSE IF ~AllNum(args) THEN BRaise("TypeError")
    ELSE IF Len(args) = 1 THEN BRet(VNum(0 - args[1].n))
    ELSE BRet(VNum(args[1].n - SumSeq(Tail(args))))

(* "*" *)
builtin_mul(args) ==
    IF AllNum(args) THEN BRet(VNum(ProdSeq(args)))
    ELSE IF \E i \in 1..Len(args) : args[i].t \in {"pair", "fn", "builtin", "none"}
         THEN BRaise("TypeError")
         ELSE BRaise("Unmodelled")

(* "/": with one argument 1/args[0], else args[0] times the product of    *)
(* 1/arg for the other arguments; the first of these divisions that fails  *)
(* raises, and a quotient is a float                                       *)
builtin_div(args) ==
    IF Len(args) = 0 THEN BRaise("SchemeEvaluationError")
    ELSE LET divisors == IF Len(args) = 1 THEN args ELSE Tail(args)
             bad == {i \in 1..Len(divisors) :
                        divisors[i].t # "num" \/ divisors[i] = VNum(0)}
         IN  IF bad = {} THEN BRaise("Unmodelled")
             ELSE IF divisors[CHOOSE i \in bad : \A j \in bad : i <= j].t = "num"
                  THEN BRaise("ZeroDivisionError")
                  ELSE BRaise("TypeError")

(* "equal?" *)
builtin_equal(args) ==
    IF \E i \in 1..(Len(args) - 1) : args[i].t = "fn" /\ args[i] = args[i + 1]
    THEN BRaise("Unmodelled")
    ELSE IF \A i \in 1..(Len(args) - 1) : args[i] = args[i + 1]
    THEN BRet(VStr(booleans[1])) ELSE BRet(VStr(booleans[2]))

(* ">", ">=", "<", "<=": all() stops at the first pair that is not in      *)
(* order; a pair of values Python cannot order raises TypeError.           *)
Orderable(a, b) == (a.t = "num" /\ b.t = "num") \/ (a.t = "str" /\ b.t = "str")
                   \/ (a.t = "nil" /\ b.t = "nil")

(* '#f' < '#t' as Python strings *)
Less(a, b) == IF a.t = "num" THEN a.n < b.n
              ELSE IF a.t = "str" THEN a.s = booleans[2] /\ b.s = booleans[1]
              ELSE FALSE

(* faulty variant: ">=" and "<=" are taken as ">" and "<" *)
Related_strict(op, a, b) ==
    CASE op \in {">", ">="} -> Less(b, a)
      [] op \in {"<", "<="} -> Less(a, b)

Related(op, a, b) ==
    CASE op = ">" -> Less(b, a)
      [] op = ">=" -> Less(b, a) \/ a = b
      [] op = "<" -> Less(a, b)
      [] op = "<=" -> Less(a, b) \/ a = b

RECURSIVE builtin_compare(_, _)
builtin_compare(op, args) ==
    IF Len(args) < 2 THEN BRet(VStr(booleans[1]))
    ELSE IF ~Orderable(args[1], args[2]) THEN BRaise("TypeError")
    ELSE IF ~Related(op, args[1], args[2]) THEN BRet(VStr(booleans[2]))
    ELSE builtin_compare(op, Tail(args))

(* "not" *)
builtin_not(arg) ==
    IF Len(arg) = 0 \/ Len(arg) > 1 THEN BRaise("SchemeEvaluationError")
    ELSE IF arg[1] = VStr(booleans[2]) THEN BRet(VStr(booleans[1]))
    ELSE BRet(VStr(booleans[2]))

(* "car", "cdr" *)
builtin_car(ps, arg) ==
    IF Len(arg) = 0 \/ Len(arg) > 1 \/ arg[1].t # "pair"
    THEN BRaise("SchemeEvaluationError")
    ELSE BRet(ps[arg[1].id].car)

builtin_cdr(ps, arg) ==
    IF Len(arg) = 0 \/ Len(arg) > 1 \/ arg[1].t # "pair"
    THEN BRaise("SchemeEvaluationError")
    ELSE BRet(ps[arg[1].id].cdr)

RECURSIVE is_list(_, _)
is_list(ps, obj) ==
    IF Len(obj) = 0 THEN BRaise("IndexError")
    ELSE IF obj[1] = VNil THEN BRet(VStr(booleans[1]))
    ELSE IF obj[1].t # "pair" THEN BRet(VStr(booleans[2]))
    ELSE LET cdr == builtin_cdr(ps, obj)
         IN  IF cdr.kind # "ok" THEN cdr ELSE is_list(ps, <<cdr.val>>)

RECURSIVE length(_, _)
length(ps, dalist) ==
    IF Len(dalist) = 0 THEN BRaise("IndexError")
    ELSE IF dalist[1] = VNil THEN BRet(VNum(0))
    ELSE IF dalist[1].t # "pair" THEN BRaise("SchemeEvaluationError")
    ELSE LET cdr == builtin_cdr(ps, dalist)
         IN  IF cdr.kind # "ok" THEN cdr
             ELSE LET rest == length(ps, <<cdr.val>>)
                  IN  IF rest.kind # "ok" THEN rest
                      ELSE BRet(VNum(1 + rest.val.n))

(* faulty variant: the index counts from 1 *)
RECURSIVE list_ref_from_one(_, _)
list_ref_from_one(ps, arg) ==
    IF Len(arg) = 0 \/ Len(arg) > 2 THEN BRaise("SchemeEvaluationError")
    ELSE IF Len(arg) < 2 THEN BRaise("IndexError")
    ELSE LET dalist == arg[1]
             ind == arg[2]
         IN  IF dalist.t # "pair" THEN BRaise("SchemeEvaluationError")
             ELSE IF ind = VNum(1) THEN builtin_car(ps, <<dalist>>)
             ELSE IF ind.t # "num" THEN BRaise("TypeError")
             ELSE list_ref_from_one(ps, <<builtin_cdr(ps, <<dalist>>).val, VNum(ind.n - 1)>>)

RECURSIVE list_ref(_, _)
list_ref(ps, arg) ==
    IF Len(arg) = 0 \/ Len(arg) > 2 THEN BRaise("SchemeEvaluationError")
    ELSE IF Len(arg) < 2 THEN BRaise("IndexError")
    ELSE LET dalist == arg[1]
             ind == arg[2]
         IN  IF dalist.t # "pair" THEN BRaise("SchemeEvaluationError")
             ELSE IF ind = VNum(0) THEN builtin_car(ps, <<dalist>>)
             ELSE IF ind.t # "num" THEN BRaise("TypeError")
             ELSE list_ref(ps, <<builtin_cdr(ps, <<dalist>>).val, VNum(ind.n - 1)>>)

(* "begin" *)
builtin_begin(args) ==
    IF Len(args) = 0 THEN BRaise("IndexError") ELSE BRet(args[Len(args)])

BuiltinNames == {"+", "-", "*", "/", "equal?", ">", ">=", "<", "<=", "not",
                 "car", "cdr", "list?", "length", "list-ref", "append", "begin"}

scheme_builtins ==
    [n \in BuiltinNames \cup {"#t", "#f", "nil"} |->
        CASE n = "#t" -> VStr("#t")
          [] n = "#f" -> VStr("#f")
          [] n = "nil" -> VNil
          [] OTHER -> VBuiltin(n)]

(* func(args) for a builtin callable *)
call_builtin(name, ps, args) ==
    CASE name = "+" -> builtin_add(args)
      [] name = "-" -> builtin_sub(args)
      [] name = "*" -> builtin_mul(args)
      [] name = "/" -> builtin_div(args)
      [] name = "equal?" -> builtin_equal(args)
      [] name \in {">", ">=", "<", "<="} -> builtin_compare(name, args)
      [] name = "not" -> builtin_not(args)
      [] name = "car" -> builtin_car(ps, args)
      [] name = "cdr" -> builtin_cdr(ps, args)
      [] name = "list?" -> is_list(ps, args)
      [] name = "length" -> length(ps, args)
      [] name = "list-ref" -> list_ref(ps, args)
      [] name = "begin" -> builtin_begin(args)

(* the global frame `builtins` *)
builtins == [variables |-> scheme_builtins, parent_frame |-> None]

---------------------------------------------------------------------------
(* The heap an evaluation works on, and the trace of the calls of          *)
(* `evaluate` it makes: one "call" event on entry (with the frame's        *)
(* frames and pairs of that moment) and one "ret" event on return or raise.*)

Heap(fs, ps, log) == [frames |-> fs, pairs |-> ps, log |-> log]

CallEv(tree, eval_frame, d, st) ==
    [ev |-> "call", d |-> d, tree |-> tree, frame |-> eval_frame,
     frames |-> st.frames, pairs |-> st.pairs, kind |-> "", val |-> NoVal]

RetEv(tree, eval_frame, d, r) ==
    [ev |-> "ret", d |-> d, tree |-> tree, frame |-> eval_frame,
     frames |-> r.st.frames, pairs |-> r.st.pairs, kind |-> r.kind, val |-> r.val]

(* valid_name: the characters of the names the model uses *)
NonAscii == {"U+00E9", "U+03BB"}

Chars(name) ==
    CASE name = "a b" -> <<"a", " ", "b">>
      [] name = "a(b" -> <<"a", "(", "b">>
      [] name = "a)b" -> <<"a", ")", "b">>
      [] name = "caf\\u00e9" -> <<"c", "a", "f", "U+00E9">>
      [] name = "a\\tb" -> <<"a", "\t", "b">>
      [] name = "a\\nb" -> <<"a", "\n", "b">>
      [] OTHER -> <<name>>

valid_name(name) ==
    LET cs == Chars(name)
        has(c) == \E i \in 1..Len(cs) : cs[i] = c
    IN  /\ \A i \in 1..Len(cs) : cs[i] \notin NonAscii
        /\ ~has("(") /\ ~has(")") /\ ~has(" ")

(* tree is a list and tree[0] == head *)
HeadIs(tree, head) == tree.k = "list" /\ Size(tree) > 0 /\ IsSym(At(tree, 0), head)

(* the heads the dispatch of evaluate tests before it takes a list for an  *)
(* application                                                             *)
SpecialForm(tree) ==
    \E head \in {"set!", "let", "del", "list", "cons", "if", "and", "or",
                  "define", "lambda"} : HeadIs(tree, head)

RECURSIVE evaluate(_, _, _, _)
RECURSIVE evalseq(_, _, _, _)

(* [evaluate(t, eval_frame) for t in trees]: left to right, the first      *)
(* exception ends it.                                                      *)
evalseq(trees, eval_frame, st, d) ==
    LET r == evaluate(Head(trees), eval_frame, st, d)
        rs == evalseq(Tail(trees), eval_frame, r.st, d)
    IN  CASE trees = <<>> -> [st |-> st, kind |-> "ok", vals |-> <<>>]
          [] trees # <<>> /\ r.kind # "ok" ->
                [st |-> r.st, kind |-> r.kind, vals |-> <<>>]
          [] trees # <<>> /\ r.kind = "ok" -> [rs EXCEPT !.vals = <<r.val>> \o @]

(* for name, variable in zip(names, variables): frame.define_var(...)      *)
RECURSIVE define_all(_, _, _)
define_all(variables, names, vals) ==
    IF names = <<>> \/ vals = <<>> THEN variables
    ELSE define_all(Bind(variables, Head(names).s, Head(vals)),
                    Tail(names), Tail(vals))

(* faulty variant: the name is rebound in the current frame *)
eval_set_current(tree, eval_frame, st, d) ==
    LET expr == evaluate(At(tree, 2), eval_frame, st, d + 1)
        nearest_frame == find_nearest(expr.st.frames, eval_frame, At(tree, 1).s)
    IN  IF expr.kind # "ok" THEN expr
        ELSE IF nearest_frame.kind # "ok" THEN Raise(expr.st, nearest_frame.kind)
        ELSE Ret([expr.st EXCEPT !.frames =
                    define_var(@, eval_frame, At(tree, 1).s, expr.val)], expr.val)

(* faulty variant: a name no frame defines is bound in the current frame *)
eval_set_create(tree, eval_frame, st, d) ==
    LET expr == evaluate(At(tree, 2), eval_frame, st, d + 1)
        nearest_frame == find_nearest(expr.st.frames, eval_frame, At(tree, 1).s)
    IN  IF expr.kind # "ok" THEN expr
        ELSE Ret([expr.st EXCEPT !.frames =
                    define_var(@, IF nearest_frame.kind = "ok"
                                  THEN nearest_frame.frame ELSE eval_frame,
                               At(tree, 1).s, expr.val)], expr.val)

(* tree[0] == 'set!' *)
eval_set(tree, eval_frame, st, d) ==
    IF ~Has(tree, 2) THEN Raise(st, "IndexError")
    ELSE LET var == At(tree, 1)
             expr == evaluate(At(tree, 2), eval_frame, st, d + 1)
         IN  IF expr.kind # "ok" THEN expr
             ELSE IF var.k # "sym" THEN Raise(expr.st, IF var.k = "list" THEN "TypeError" ELSE "SchemeNameError")
             ELSE LET nearest_frame == find_nearest(expr.st.frames, eval_frame, var.s)
                  IN  IF nearest_frame.kind # "ok"
                      THEN Raise(expr.st, nearest_frame.kind)
                      ELSE Ret([expr.st EXCEPT !.frames =
                                  define_var(@, nearest_frame.frame, var.s, expr.val)],
                               expr.val)

(* tree[0] == 'del' *)
eval_del(tree, eval_frame, st, d) ==
    IF ~Has(tree, 1) THEN Raise(st, "IndexError")
    ELSE IF At(tree, 1).k # "sym"
         THEN Raise(st, IF At(tree, 1).k = "list" THEN "TypeError" ELSE "SchemeNameError")
    ELSE LET r == delete(st.frames, eval_frame, At(tree, 1).s)
         IN  IF r.kind # "ok" THEN Raise(st, r.kind)
             ELSE Ret([st EXCEPT !.frames = r.frames], r.val)

(* tree[0] == 'cons' *)
eval_cons(tree, eval_frame, st, d) ==
    IF Size(tree) - 1 = 2
    THEN LET car == evaluate(At(tree, 1), eval_frame, st, d + 1)
         IN  IF car.kind # "ok" THEN car
             ELSE LET cdr == evaluate(At(tree, 2), eval_frame, car.st, d + 1)
                  IN  IF cdr.kind # "ok" THEN cdr
                      ELSE Ret([cdr.st EXCEPT !.pairs =
                                  Append(@, [car |-> car.val, cdr |-> cdr.val])],
                               VPair(Len(cdr.st.pairs) + 1))
    ELSE Raise(st, "SchemeEvaluationError")

(* tree[0] == 'list' *)
eval_list(tree, eval_frame, st, d) ==
    IF Size(tree) - 1 = 0
    THEN evaluate(Sym("nil"), eval_frame, st, d + 1)
    ELSE LET rest == From(tree, 2)
         IN  evaluate(Lst(<<Sym("cons"), At(tree, 1), Lst(<<Sym("list")>> \o rest)>>),
                      eval_frame, st, d + 1)

(* faulty variant: both branches are evaluated before one is chosen *)
eval_if_eager(tree, eval_frame, st, d) ==
    LET cond == IF IsBoolTok(At(tree, 1)) THEN Ret(st, NoVal)
                ELSE evaluate(At(tree, 1), eval_frame, st, d + 1)
        t_exp == IF IsBoolTok(At(tree, 2)) THEN Ret(cond.st, VStr(At(tree, 2).s))
                 ELSE evaluate(At(tree, 2), eval_frame, cond.st, d + 1)
        f_exp == IF IsBoolTok(At(tree, 3)) THEN Ret(t_exp.st, VStr(At(tree, 3).s))
                 ELSE evaluate(At(tree, 3), eval_frame, t_exp.st, d + 1)
    IN  IF cond.kind # "ok" THEN cond
        ELSE IF (~IsBoolTok(At(tree, 1)) /\ cond.val = VStr(booleans[1]))
                 \/ IsSym(At(tree, 1), booleans[1])
             THEN [t_exp EXCEPT !.st = f_exp.st]
             ELSE f_exp

(* tree[0] == 'if' *)
eval_if(tree, eval_frame, st, d) ==
    LET cond == IF IsBoolTok(At(tree, 1)) THEN Ret(st, NoVal)
                ELSE evaluate(At(tree, 1), eval_frame, st, d + 1)
        taken == IF (~IsBoolTok(At(tree, 1)) /\ cond.val = VStr(booleans[1]))
                    \/ IsSym(At(tree, 1), booleans[1])
                 THEN 2 ELSE 3
    IN  CASE ~Has(tree, 1) -> Raise(st, "IndexError")
          [] Has(tree, 1) /\ cond.kind # "ok" -> cond
          [] Has(tree, 1) /\ cond.kind = "ok" /\ ~Has(tree, taken) ->
                Raise(cond.st, "IndexError")
          [] Has(tree, 1) /\ cond.kind = "ok" /\ Has(tree, taken)
                /\ IsBoolTok(At(tree, taken)) ->
                Ret(cond.st, VStr(At(tree, taken).s))
          [] Has(tree, 1) /\ cond.kind = "ok" /\ Has(tree, taken)
                /\ ~IsBoolTok(At(tree, taken)) ->
                evaluate(At(tree, taken), eval_frame, cond.st, d + 1)

(* tree[0] == 'and', tree[0] == 'or': `stop` is the value that ends the    *)
(* loop, `other` the value returned when no operand ends it.               *)
RECURSIVE eval_andor(_, _, _, _, _, _)

(* faulty variant: the operands after the one that ends the loop are       *)
(* evaluated too                                                           *)
RECURSIVE eval_andor_eager(_, _, _, _, _, _)
eval_andor_eager(args, stop, other, eval_frame, st, d) ==
    IF args = <<>> THEN Ret(st, VStr(other))
    ELSE LET arg == Head(args)
             r == IF IsBoolTok(arg) THEN Ret(st, NoVal)
                  ELSE evaluate(arg, eval_frame, st, d + 1)
         IN  IF r.kind # "ok" THEN r
             ELSE IF (~IsBoolTok(arg) /\ r.val = VStr(stop)) \/ IsSym(arg, stop)
                  THEN eval_andor_eager(Tail(args), stop, stop, eval_frame, r.st, d)
                  ELSE eval_andor_eager(Tail(args), stop, other, eval_frame, r.st, d)

(* faulty variant: every value but `other` ends the loop *)
RECURSIVE eval_andor_truthy(_, _, _, _, _, _)
eval_andor_truthy(args, stop, other, eval_frame, st, d) ==
    IF args = <<>> THEN Ret(st, VStr(other))
    ELSE LET arg == Head(args)
             r == IF IsBoolTok(arg) THEN Ret(st, NoVal)
                  ELSE evaluate(arg, eval_frame, st, d + 1)
         IN  IF r.kind # "ok" THEN r
             ELSE IF (~IsBoolTok(arg) /\ r.val # VStr(other)) \/ IsSym(arg, stop)
                  THEN Ret(r.st, VStr(stop))
                  ELSE eval_andor_truthy(Tail(args), stop, other, eval_frame, r.st, d)

eval_andor(args, stop, other, eval_frame, st, d) ==
    IF args = <<>> THEN Ret(st, VStr(other))
    ELSE LET arg == Head(args)
             r == IF IsBoolTok(arg) THEN Ret(st, NoVal)
                  ELSE evaluate(arg, eval_frame, st, d + 1)
         IN  IF r.kind # "ok" THEN r
             ELSE IF (~IsBoolTok(arg) /\ r.val = VStr(stop)) \/ IsSym(arg, stop)
                  THEN Ret(r.st, VStr(stop))
                  ELSE eval_andor(Tail(args), stop, other, eval_frame, r.st, d)

(* tree[0] == 'lambda' *)
eval_lambda(tree, eval_frame, st, d) ==
    IF ~Has(tree, 2) THEN Raise(st, "IndexError")
    ELSE Ret(st, VFn(At(tree, 1), At(tree, 2), eval_frame))

(* tree[0] == 'define' *)
eval_define(tree, eval_frame, st, d) ==
    IF ~Has(tree, 1) THEN Raise(st, "IndexError")
    ELSE IF At(tree, 1).k = "list"
    THEN IF ~Has(At(tree, 1), 0) \/ ~Has(tree, 2) THEN Raise(st, "IndexError")
         ELSE LET fn == evaluate(Lst(<<Sym("lambda"), Lst(From(At(tree, 1), 1)),
                                       At(tree, 2)>>), eval_frame, st, d + 1)
                  name == At(At(tree, 1), 0)
              IN  IF fn.kind # "ok" THEN fn
                  ELSE IF name.k # "sym"
                       THEN Raise(fn.st, IF name.k = "list" THEN "TypeError" ELSE "Unmodelled")
                  ELSE Ret([fn.st EXCEPT !.frames =
                              define_var(@, eval_frame, name.s, fn.val)], fn.val)
    ELSE IF At(tree, 1).k # "sym" THEN Raise(st, "AttributeError")
    ELSE IF valid_name(At(tree, 1).s)
    THEN IF ~Has(tree, 2) THEN Raise(st, "IndexError")
         ELSE LET exp == evaluate(At(tree, 2), eval_frame, st, d + 1)
              IN  IF exp.kind # "ok" THEN exp
                  ELSE Ret([exp.st EXCEPT !.frames =
                              define_var(@, eval_frame, At(tree, 1).s, exp.val)],
                           exp.val)
    ELSE Raise(st, "SchemeEvaluationError")

(* faulty variant: the names are bound in the current frame and the body   *)
(* is evaluated there                                                      *)
eval_let_in_current(tree, eval_frame, st, d) ==
    IF ~Has(tree, 1) THEN Raise(st, "IndexError")
    ELSE IF At(tree, 1).k # "list"
            \/ \E i \in 1..Size(At(tree, 1)) :
                  \/ At(tree, 1).xs[i].k # "list"
                  \/ Size(At(tree, 1).xs[i]) < 2
                  \/ At(At(tree, 1).xs[i], 0).k # "sym"
         THEN Raise(st, "Unmodelled")
    ELSE LET names == [i \in 1..Size(At(tree, 1)) |-> At(At(tree, 1).xs[i], 0)]
             exprs == [i \in 1..Size(At(tree, 1)) |-> At(At(tree, 1).xs[i], 1)]
             variables == evalseq(exprs, eval_frame, st, d + 1)
         IN  IF variables.kind # "ok" THEN Raise(variables.st, variables.kind)
             ELSE LET st2 == [variables.st EXCEPT !.frames[eval_frame].variables =
                                define_all(@, names, variables.vals)]
                  IN  IF ~Has(tree, 2) THEN Raise(st2, "IndexError")
                      ELSE evaluate(At(tree, 2), eval_frame, st2, d + 1)

(* tree[0] == 'let' *)
eval_let(tree, eval_frame, st, d) ==
    IF ~Has(tree, 1) THEN Raise(st, "IndexError")
    ELSE IF At(tree, 1).k # "list"
            \/ \E i \in 1..Size(At(tree, 1)) :
                  \/ At(tree, 1).xs[i].k # "list"
                  \/ Size(At(tree, 1).xs[i]) < 2
                  \/ At(At(tree, 1).xs[i], 0).k # "sym"
         THEN Raise(st, "Unmodelled")
    ELSE LET names == [i \in 1..Size(At(tree, 1)) |-> At(At(tree, 1).xs[i], 0)]
             exprs == [i \in 1..Size(At(tree, 1)) |-> At(At(tree, 1).xs[i], 1)]
             variables == evalseq(exprs, eval_frame, st, d + 1)
         IN  IF variables.kind # "ok" THEN Raise(variables.st, variables.kind)
             ELSE LET lilframe == Len(variables.st.frames) + 1
                      st2 == [variables.st EXCEPT !.frames =
                                Append(@, [variables |->
                                             define_all(NoVars, names, variables.vals),
                                           parent_frame |-> eval_frame])]
                  IN  IF ~Has(tree, 2) THEN Raise(st2, "IndexError")
                      ELSE evaluate(At(tree, 2), lilframe, st2, d + 1)

(* len(inputs) == len(params) *)
arity_unchecked(inputs, params) == TRUE

arity_matches(inputs, params) == Len(inputs) = Len(params)

(* the parent of the frame of a call: Frame(func.enc_frame) *)
call_parent_dynamic(func, eval_frame) == eval_frame

call_parent(func, eval_frame) == func.enc_frame

(* a list expression whose first element is no function *)
not_callable_TypeError(st) == Raise(st, "TypeError")

not_callable(st) == Raise(st, "SchemeEvaluationError")

(* A Python object that is no str, number or list, standing where a tree   *)
(* is expected.                                                            *)
Obj(v) == [k |-> "obj", v |-> v]

(* a value that is no Pair, put into a list that is then evaluated *)
AsTree(v) ==
    CASE v.t = "num" -> Num(v.n)
      [] v.t = "str" -> Sym(v.s)
      [] v.t = "nil" -> Lst(<<>>)
      [] OTHER -> Obj(v)

(* Pair.astokens *)
RECURSIVE astokens(_, _)
astokens(ps, self) ==
    LET car == IF ps[self].car.t = "pair" THEN astokens(ps, ps[self].car.id)
               ELSE AsTree(ps[self].car)
        cdr == IF ps[self].cdr.t = "pair" THEN astokens(ps, ps[self].cdr.id)
               ELSE IF ps[self].cdr = VNil THEN Sym("nil")
               ELSE AsTree(ps[self].cdr)
    IN  Lst(<<Sym("cons"), car, cdr>>)

(* concat after the loops over the lists and their elements *)
RECURSIVE concat_of(_, _)
concat_of(ps, lists) ==
    IF lists = <<>> THEN <<>>
    ELSE LET elems == ListElems(ps, Head(lists))
         IN  [i \in 1..Len(elems) |->
                 IF elems[i].t = "pair" THEN astokens(ps, elems[i].id)
                 ELSE AsTree(elems[i])]
             \o concat_of(ps, Tail(lists))

(* faulty variant: the first list is the result *)
append_first(lists, st, d) ==
    IF Len(lists) = 0 THEN evaluate(Lst(<<Sym("list")>>), None, st, d)
    ELSE IF \E i \in 1..Len(lists) :
                is_list(st.pairs, <<lists[i]>>).val # VStr(booleans[1])
         THEN Raise(st, "SchemeEvaluationError")
         ELSE Ret(st, lists[1])

(* "append": the elements of the lists are put after 'list' and the list   *)
(* so made is evaluated, with no frame given                               *)
append(lists, st, d) ==
    IF Len(lists) # 0
       /\ \E i \in 1..Len(lists) :
              is_list(st.pairs, <<lists[i]>>).val # VStr(booleans[1])
    THEN Raise(st, "SchemeEvaluationError")
    ELSE evaluate(Lst(<<Sym("list")>> \o concat_of(st.pairs, lists)), None, st, d)

(* evaluate(tree, eval_frame), called at depth d of the recursion          *)
evaluate(tree, frame_arg, st0, d) ==
    LET eval_frame == IF frame_arg = None THEN Len(st0.frames) + 1 ELSE frame_arg
        st1 == IF frame_arg = None
               THEN [st0 EXCEPT !.frames = Append(@, Frame(1))]
               ELSE st0
        st == [st1 EXCEPT !.log = Append(@, CallEv(tree, eval_frame, d, st1))]
        \* function operations: the final else of the dispatch
        applied == tree.k = "list" /\ Size(tree) > 0 /\ ~SpecialForm(tree)
        func == evaluate(At(tree, 0), eval_frame, st, d + 1)
        is_function == applied /\ func.kind = "ok" /\ func.val.t = "fn"
        is_builtin == applied /\ func.kind = "ok" /\ func.val.t = "builtin"
        names_only ==
            /\ func.val.params.k = "list"
            /\ \A i \in 1..Size(func.val.params) : func.val.params.xs[i].k = "sym"
        params == func.val.params.xs
        inputs == evalseq(From(tree, 1), eval_frame, func.st, d + 1)
        lil_frame == Len(inputs.st.frames) + 1
        st2 == [inputs.st EXCEPT !.frames =
                  Append(@, [variables |-> define_all(NoVars, params, inputs.vals),
                             parent_frame |-> call_parent(func.val, eval_frame)])]
        called == call_builtin(func.val.name, inputs.st.pairs, inputs.vals)
        r == CASE tree.k = "sym" ->
                    LET v == search_frames(st.frames, eval_frame, tree.s)
                    IN  [st |-> st, kind |-> v.kind, val |-> v.val]
               [] tree.k = "num" -> Ret(st, VNum(tree.n))
               [] tree.k = "float" -> Raise(st, "Unmodelled")
               [] tree.k = "list" /\ Size(tree) = 0 ->
                    Raise(st, "SchemeEvaluationError")
               [] HeadIs(tree, "set!") -> eval_set(tree, eval_frame, st, d)
               [] HeadIs(tree, "let") -> eval_let(tree, eval_frame, st, d)
               [] HeadIs(tree, "del") -> eval_del(tree, eval_frame, st, d)
               [] HeadIs(tree, "list") -> eval_list(tree, eval_frame, st, d)
               [] HeadIs(tree, "cons") -> eval_cons(tree, eval_frame, st, d)
               [] HeadIs(tree, "if") -> eval_if(tree, eval_frame, st, d)
               [] HeadIs(tree, "and") ->
                    eval_andor(From(tree, 1), booleans[2], booleans[1], eval_frame, st, d)
               [] HeadIs(tree, "or") ->
                    eval_andor(From(tree, 1), booleans[1], booleans[2], eval_frame, st, d)
               [] HeadIs(tree, "define") -> eval_define(tree, eval_frame, st, d)
               [] HeadIs(tree, "lambda") -> eval_lambda(tree, eval_frame, st, d)
               [] applied /\ func.kind # "ok" -> func
               [] is_function /\ ~names_only -> Raise(func.st, "Unmodelled")
               [] is_function /\ names_only
                     /\ ~arity_matches(From(tree, 1), params) ->
                    Raise(func.st, "SchemeEvaluationError")
               [] is_function /\ names_only
                     /\ arity_matches(From(tree, 1), params)
                     /\ inputs.kind # "ok" ->
                    Raise(inputs.st, inputs.kind)
               [] is_function /\ names_only
                     /\ arity_matches(From(tree, 1), params)
                     /\ inputs.kind = "ok" ->
                    evaluate(func.val.body, lil_frame, st2, d + 1)
               [] applied /\ func.kind = "ok"
                     /\ func.val.t \notin {"fn", "builtin"} ->
                    not_callable(func.st)
               [] is_builtin /\ inputs.kind # "ok" -> Raise(inputs.st, inputs.kind)
               [] is_builtin /\ inputs.kind = "ok" /\ func.val.name = "append" ->
                    append(inputs.vals, inputs.st, d + 1)
               [] is_builtin /\ inputs.kind = "ok" /\ func.val.name # "append" ->
                    [st |-> inputs.st, kind |-> called.kind, val |-> called.val]
               [] OTHER -> Ret(st, NoVal)
    IN  [r EXCEPT !.st.log = Append(@, RetEv(tree, eval_frame, d, r))]

---------------------------------------------------------------------------
(* Source text and tokens are sequences of characters.                     *)

Whitespace == {" ", "\n"}
Parens == {"(", ")"}

(* the characters joined into one string *)
RECURSIVE Str(_)
Str(cs) == IF cs = <<>> THEN "" ELSE Head(cs) \o Str(Tail(cs))

(* ' '.join(tokens) *)
RECURSIVE Joined(_)
Joined(tokens) ==
    IF tokens = <<>> THEN <<>>
    ELSE IF Len(tokens) = 1 THEN Head(tokens)
    ELSE Head(tokens) \o <<" ">> \o Joined(Tail(tokens))

(* s.find(c), counted from 1; 0 when c is not in s *)
find(s, c) ==
    IF \E i \in 1..Len(s) : s[i] = c
    THEN CHOOSE i \in 1..Len(s) : s[i] = c /\ \A j \in 1..(i - 1) : s[j] # c
    ELSE 0

(* source.splitlines() *)
RECURSIVE splitlines(_)
splitlines(source) ==
    IF source = <<>> THEN <<>>
    ELSE LET i == find(source, "\n")
         IN  IF i = 0 THEN <<source>>
             ELSE <<SubSeq(source, 1, i - 1)>>
                    \o splitlines(SubSeq(source, i + 1, Len(source)))

(* faulty variant: the whole line is kept *)
substr_whole(line) == line

(* faulty variant: the line is cut at its last ';' *)
substr_last(line) ==
    LET cs == {i \in 1..Len(line) : line[i] = ";"}
    IN  IF cs # {} THEN SubSeq(line, 1, (CHOOSE i \in cs : \A j \in cs : j <= i) - 1)
        ELSE line

(* line[:colon] when the line has a ';', else the line *)
substr(line) ==
    LET colon == find(line, ";")
    IN  IF colon # 0 THEN SubSeq(line, 1, colon - 1) ELSE line

(* line.split(): the words between runs of whitespace *)
RECURSIVE split(_)
split(line) ==
    IF line = <<>> THEN <<>>
    ELSE IF Head(line) \in Whitespace THEN split(Tail(line))
    ELSE LET ws == {i \in 1..Len(line) : line[i] \in Whitespace}
             end == IF ws = {} THEN Len(line)
                    ELSE (CHOOSE i \in ws : \A j \in ws : i <= j) - 1
         IN  <<SubSeq(line, 1, end)>> \o split(SubSeq(line, end + 1, Len(line)))

(* the loop over the characters of one word: a parenthesis ends the token  *)
(* being built and is a token itself                                       *)
RECURSIVE split_parens(_, _)
split_parens(elem, token) ==
    IF elem = <<>> THEN (IF token # <<>> THEN <<token>> ELSE <<>>)
    ELSE IF Head(elem) \in Parens
         THEN (IF token # <<>> THEN <<token>> ELSE <<>>)
                 \o <<<<Head(elem)>>>> \o split_parens(Tail(elem), <<>>)
         ELSE split_parens(Tail(elem), Append(token, Head(elem)))

RECURSIVE onlychars(_)
onlychars(lines) ==
    IF lines = <<>> THEN <<>>
    ELSE split(substr(Head(lines))) \o onlychars(Tail(lines))

RECURSIVE tokens_of(_)
tokens_of(elems) ==
    IF elems = <<>> THEN <<>>
    ELSE split_parens(Head(elems), <<>>) \o tokens_of(Tail(elems))

tokenize(source) == tokens_of(onlychars(splitlines(source)))

---------------------------------------------------------------------------
(* number_or_symbol(x): int(x), else float(x), else x itself.  A token is   *)
(* an int when it is digits after an optional sign, and a float when it is *)
(* digits with one '.' among or around them after an optional sign; the    *)
(* tokens here hold no '_', no exponent and no spelling of inf or nan.     *)
Digits == {"0", "1", "2", "3", "4", "5", "6", "7", "8", "9"}
Signs == {"+", "-"}

DigitVal(c) ==
    CASE c = "0" -> 0 [] c = "1" -> 1 [] c = "2" -> 2 [] c = "3" -> 3
      [] c = "4" -> 4 [] c = "5" -> 5 [] c = "6" -> 6 [] c = "7" -> 7
      [] c = "8" -> 8 [] c = "9" -> 9

Unsigned(x) == IF x # <<>> /\ Head(x) \in Signs THEN Tail(x) ELSE x
Negative(x) == x # <<>> /\ Head(x) = "-"

RECURSIVE DecVal(_)
DecVal(ds) ==
    IF ds = <<>> THEN 0 ELSE 10 * DecVal(SubSeq(ds, 1, Len(ds) - 1)) + DigitVal(ds[Len(ds)])

IsInt(x) ==
    Unsigned(x) # <<>> /\ \A i \in 1..Len(Unsigned(x)) : Unsigned(x)[i] \in Digits

IsFloat(x) ==
    LET u == Unsigned(x)
    IN  /\ Cardinality({i \in 1..Len(u) : u[i] = "."}) = 1
        /\ \E i \in 1..Len(u) : u[i] \in Digits
        /\ \A i \in 1..Len(u) : u[i] \in Digits \cup {"."}

(* a float: m / 10^e, negated when neg, with no trailing zero counted in e *)
RECURSIVE Flt(_, _, _)
Flt(neg, m, e) ==
    IF e > 0 /\ m % 10 = 0 THEN Flt(neg, m \div 10, e - 1)
    ELSE [k |-> "float", neg |-> neg, m |-> m, e |-> e]

number_or_symbol(x) ==
    IF IsInt(x)
    THEN Num(IF Negative(x) THEN 0 - DecVal(Unsigned(x)) ELSE DecVal(Unsigned(x)))
    ELSE IF IsFloat(x)
    THEN LET u == Unsigned(x)
             dot == find(u, ".")
         IN  Flt(Negative(x),
                 DecVal(SubSeq(u, 1, dot - 1) \o SubSeq(u, dot + 1, Len(u))),
                 Len(u) - dot)
    ELSE Sym(Str(x))

(* parse(tokens) *)
Open == <<"(">>
Close == <<")">>
DefineToken == <<"d", "e", "f", "i", "n", "e">>
LambdaToken == <<"l", "a", "m", "b", "d", "a">>

In(tokens, t) == \E i \in 1..Len(tokens) : tokens[i] = t
Count(tokens, t) == Cardinality({i \in 1..Len(tokens) : tokens[i] = t})

PRet(tree, index) == [kind |-> "ok", tree |-> tree, index |-> index]
PRaise(kind) == [kind |-> kind, tree |-> Lst(<<>>), index |-> 0]

RECURSIVE parse_expression(_, _)
RECURSIVE parse_items(_, _, _)

(* faulty variant: the index is not stepped back after a sub-expression *)
RECURSIVE parse_items_skipping(_, _, _)
parse_items_skipping(tokens, index, subexpression) ==
    IF index + 1 >= Len(tokens) THEN PRaise("IndexError")
    ELSE IF tokens[index + 2] = Close THEN PRet(Lst(subexpression), index + 2)
    ELSE LET r == parse_expression(tokens, index + 1)
         IN  IF r.kind # "ok" THEN r
             ELSE parse_items_skipping(tokens, r.index, Append(subexpression, r.tree))

(* the while loop of parse_expression; indexes count from 0 as in the code *)
parse_items(tokens, index, subexpression) ==
    IF index + 1 >= Len(tokens) THEN PRaise("IndexError")
    ELSE IF tokens[index + 2] = Close THEN PRet(Lst(subexpression), index + 2)
    ELSE LET r == parse_expression(tokens, index + 1)
         IN  IF r.kind # "ok" THEN r
             ELSE parse_items(tokens, r.index - 1, Append(subexpression, r.tree))

parse_expression(tokens, index) ==
    IF index >= Len(tokens) THEN PRaise("IndexError")
    ELSE IF tokens[index + 1] # Open
         THEN PRet(number_or_symbol(tokens[index + 1]), index + 1)
         ELSE parse_items(tokens, index, <<>>)

(* faulty variant: only the numbers of parentheses are compared *)
malformed_counts(tokens) == Count(tokens, Open) # Count(tokens, Close)

(* the checks parse makes before parsing *)
malformed(tokens) ==
    \/ /\ In(tokens, Close)
       /\ \/ Count(tokens, Open) # Count(tokens, Close)
          \/ find(tokens, Close) < find(tokens, Open)
    \/ (In(tokens, Open) /\ ~In(tokens, Close)) \/ (In(tokens, Close) /\ ~In(tokens, Open))
    \/ ~In(tokens, Open) /\ (In(tokens, DefineToken) \/ In(tokens, LambdaToken))

parse(tokens) ==
    IF malformed(tokens) THEN PRaise("SchemeSyntaxError")
    ELSE parse_expression(tokens, 0)

---------------------------------------------------------------------------
(* The expression trees handed to evaluate.                                *)

X == Sym("x")
Y == Sym("y")
Define(name, expr) == Lst(<<Sym("define"), name, expr>>)
SetBang(name, expr) == Lst(<<Sym("set!"), name, expr>>)
Lambda(params, body) == Lst(<<Sym("lambda"), Lst(params), body>>)
If(c, a, b) == Lst(<<Sym("if"), c, a, b>>)
Cons(a, b) == Lst(<<Sym("cons"), a, b>>)
Del(name) == Lst(<<Sym("del"), name>>)

(* (begin (define f (lambda () (set! x 2)))                                *)
(*        (define (g y) (+ x y))                                           *)
(*        (define (k x) (g x)))                                            *)
Defs ==
    Lst(<<Sym("begin"),
          Define(Sym("f"), Lambda(<<>>, SetBang(X, Num(2)))),
          Define(Lst(<<Sym("g"), Y>>), Lst(<<Sym("+"), X, Y>>)),
          Define(Lst(<<Sym("k"), X>>), Lst(<<Sym("g"), X>>))>>)

PlusXX == Lst(<<Sym("+"), X, X>>)
CallF == Lst(<<Sym("f")>>)
CallG == Lst(<<Sym("g"), Num(1)>>)

(* (begin (define x 7) (+ x x)) and (begin (f) (g 1)) *)
BeginDefineUse == Lst(<<Sym("begin"), Define(X, Num(7)), PlusXX>>)
BeginFG == Lst(<<Sym("begin"), CallF, CallG>>)

LookupTrees == {X, Y, Sym("nil")}

DefineTrees == {Define(X, Num(7)), Defs, BeginDefineUse}

SetTrees ==
    { SetBang(X, Num(2)),
      SetBang(Y, Num(1)),
      SetBang(Y, Define(Y, Num(1))),
      SetBang(Sym("z"), Define(X, Num(7))),
      SetBang(X, Del(X)),
      SetBang(X, Lst(<<Num(1), Num(2)>>)) }

CallTrees ==
    { CallF,
      CallG,
      BeginFG,
      Lst(<<Sym("k"), Num(5)>>),
      Lst(<<Sym("g")>>),
      Lst(<<Sym("f"), Define(Y, Num(1))>>),
      PlusXX,
      Lst(<<Num(5), Num(1)>>),
      Lst(<<X, Define(Y, Num(1))>>),
      Lst(<<Sym("#t")>>),
      Lst(<<Sym("nil"), Num(1)>>),
      Lst(<<Cons(Num(1), Num(2)), Num(1)>>) }

IfTrees ==
    { If(X, Define(Y, Num(1)), Del(Y)),
      If(Sym("#t"), Num(1), Y),
      If(Sym("#f"), Y, Num(2)),
      If(Num(5), Num(1), Num(2)),
      If(Sym("nil"), Num(1), Num(2)),
      If(Cons(Num(1), Num(2)), Num(1), Num(2)),
      If(Sym("g"), Num(1), Num(2)),
      If(Sym("car"), Num(1), Num(2)),
      If(Lst(<<Sym("equal?"), X, Num(7)>>), SetBang(X, Num(2)), Define(X, Num(7))) }

And(args) == Lst(<<Sym("and")>> \o args)
Or(args) == Lst(<<Sym("or")>> \o args)
EqualX7 == Lst(<<Sym("equal?"), X, Num(7)>>)

AndTrees ==
    { And(<<>>),
      And(<<Num(5), Sym("#t")>>),
      And(<<Sym("#f"), Define(Y, Num(1))>>),
      And(<<EqualX7, Define(Y, Num(1))>>),
      And(<<X, Sym("#f"), Define(Y, Num(1))>>),
      And(<<Lst(<<Sym("not"), Sym("#t")>>), Sym("z")>>),
      And(<<Sym("z"), Define(Y, Num(1))>>) }

OrTrees ==
    { Or(<<>>),
      Or(<<Sym("#f")>>),
      Or(<<Num(5)>>),
      Or(<<Sym("#t"), Define(Y, Num(1))>>),
      Or(<<EqualX7, Define(Y, Num(1))>>),
      Or(<<X, Sym("#t"), Define(Y, Num(1))>>),
      Or(<<Lst(<<Sym("not"), Sym("#f")>>), Sym("z")>>),
      Or(<<Sym("z"), Define(Y, Num(1))>>) }

Let(bindings, body) == Lst(<<Sym("let"), Lst(bindings), body>>)
Binding(name, expr) == Lst(<<name, expr>>)

(* (let ((x 1) (y x)) y) *)
LetXY == Let(<<Binding(X, Num(1)), Binding(Y, X)>>, Y)

LetTrees ==
    { LetXY,
      Let(<<Binding(Y, Num(1))>>, Lst(<<Sym("+"), X, Y>>)),
      Let(<<>>, X),
      Let(<<Binding(X, Num(5))>>, SetBang(X, Num(2))),
      Let(<<Binding(Y, Define(Y, Num(1)))>>, Y),
      Let(<<Binding(Sym("z"), Sym("z"))>>, Num(1)),
      Let(<<Binding(X, Num(1)), Binding(X, Num(5))>>, Define(Y, X)) }

Begin(args) == Lst(<<Sym("begin")>> \o args)

(* (begin (del x) x) and (let ((x 5)) (begin (del x) x)) *)
BeginDelLookup == Begin(<<Del(X), X>>)
LetDelLookup == Let(<<Binding(X, Num(5))>>, BeginDelLookup)

DelTrees ==
    { Del(X),
      Del(Y),
      Del(Sym("nil")),
      BeginDelLookup,
      LetDelLookup,
      Let(<<>>, Del(X)) }

(* () *)
Empty == Lst(<<>>)

EmptyTrees == {Empty, Begin(<<Define(Y, Num(1)), Empty>>)}

(* the name caf\'e, with its last letter outside ASCII *)
Cafe == Sym("caf\\u00e9")

(* (let () (define (h x) x)), the same with the name caf\'e, and the long  *)
(* forms (define name (lambda (x) x)) of both                              *)
DefineShortTrees ==
    { Let(<<>>, Define(Lst(<<Sym("h"), X>>), X)),
      Let(<<>>, Define(Lst(<<Cafe, X>>), X)),
      Let(<<>>, Define(Sym("h"), Lambda(<<X>>, X))),
      Let(<<>>, Define(Cafe, Lambda(<<X>>, X))) }

True == Sym("#t")
False == Sym("#f")

(* (let ((#t 5) (#f 6)) body): the body runs where a frame rebinds the     *)
(* names #t and #f                                                         *)
Rebound(body) == Let(<<Binding(True, Num(5)), Binding(False, Num(6))>>, body)

ReboundTrees ==
    { Rebound(If(True, False, Num(1))),
      Rebound(If(False, Num(1), True)),
      Rebound(If(True, Num(1), Num(2))),
      Rebound(If(Lst(<<Sym("equal?"), True, Num(5)>>), True, False)),
      Rebound(And(<<True, True>>)),
      Rebound(And(<<True, False, Sym("z")>>)),
      Rebound(And(<<Num(1), True>>)),
      Rebound(Or(<<False, False>>)),
      Rebound(Or(<<False, True, Sym("z")>>)),
      Rebound(Or(<<Num(1), False>>)),
      Rebound(True) }

(* names with a space, a parenthesis, a tab, a newline, a letter outside  *)
(* ASCII, and a name with none of these                                    *)
TargetNames == {"a b", "a(b", "a)b", "a\\tb", "a\\nb", Cafe.s, "h"}

(* (let () (define name 1)) and (let () (define (name x) x)) *)
NameTrees ==
    {Let(<<>>, Define(Sym(name), Num(1))) : name \in TargetNames}
    \cup {Let(<<>>, Define(Lst(<<Sym(name), X>>), X)) : name \in TargetNames}

List(args) == Lst(<<Sym("list")>> \o args)
Nil == Sym("nil")

ListTrees ==
    { List(<<>>),
      List(<<Num(1)>>),
      List(<<X, Define(Y, Num(1))>>),
      List(<<Sym("z"), Define(Y, Num(1))>>),
      Let(<<Binding(Nil, Num(5))>>, List(<<>>)),
      Let(<<Binding(Nil, Num(5))>>, List(<<Num(1)>>)) }

AppendOf(args) == Lst(<<Sym("append")>> \o args)

(* (append (list 1 2) (list 3 4)) *)
Append1234 == AppendOf(<<List(<<Num(1), Num(2)>>), List(<<Num(3), Num(4)>>)>>)

AppendTrees ==
    { AppendOf(<<>>),
      Append1234,
      Lst(<<Sym("length"), Append1234>>),
      AppendOf(<<List(<<Sym("#t")>>), Nil, List(<<Sym("#f"), Num(2)>>)>>),
      AppendOf(<<List(<<Nil>>)>>),
      AppendOf(<<List(<<Lambda(<<X>>, X)>>)>>),
      AppendOf(<<List(<<Sym("car")>>)>>),
      AppendOf(<<List(<<Cons(Num(1), Num(2))>>)>>),
      AppendOf(<<Num(5)>>),
      AppendOf(<<List(<<Num(1)>>), Cons(Num(1), Num(2))>>),
      AppendOf(<<List(<<Num(1)>>), Sym("z")>>) }

ListRef(dalist, ind) == Lst(<<Sym("list-ref"), dalist, ind>>)

(* the k-th element written in the lists below: a number, #t or nil *)
ElemTree(k) == IF k % 3 = 1 THEN Num(k) ELSE IF k % 3 = 2 THEN Sym("#t") ELSE Nil

(* (list 1 #t nil ...) with n elements *)
ListOfLen(n) == List([k \in 1..n |-> ElemTree(k)])

(* (list-ref L i) for the lists of up to MaxList elements and every index  *)
(* from -1 to one past the end, and for a first argument that is no Pair   *)
ListRefTrees ==
    { ListRef(ListOfLen(n), Num(i)) : n \in 0..MaxList, i \in -1..(MaxList + 1) }
    \cup { ListRef(Num(5), Num(0)), ListRef(Sym("car"), Num(0)),
           ListRef(Sym("#t"), Num(1)), ListRef(Nil, X),
           ListRef(Cons(Num(1), Num(2)), Num(0)),
           ListRef(Cons(Num(1), Num(2)), Num(1)),
           ListRef(ListOfLen(2), Sym("#t")),
           Lst(<<Sym("list-ref"), ListOfLen(2)>>) }

Apply(name, args) == Lst(<<Sym(name)>> \o args)

(* every builtin with no argument, with one and with two arguments of      *)
(* several kinds                                                           *)
BuiltinArgs ==
    { <<>>, <<Num(1)>>, <<Sym("#t")>>, <<Nil>>, <<Cons(Num(1), Num(2))>>,
      <<Sym("car")>>, <<Num(1), Num(2)>>, <<Num(1), Num(0)>>, <<Num(1), Sym("#t")>>,
      <<Sym("#f"), Sym("#t")>>, <<Nil, Nil>>, <<List(<<Num(1)>>), Num(0)>>,
      <<List(<<Num(1)>>), Num(1), Num(2)>> }

BuiltinTrees == { Apply(name, args) : name \in BuiltinNames, args \in BuiltinArgs }

(* (define (fib n) (if (<= n 1) n (+ (fib (- n 1)) (fib (- n 2))))) *)
Fib == Sym("fib")
N == Sym("n")
FibOf(arg) == Lst(<<Fib, arg>>)
DefineFib ==
    Define(Lst(<<Fib, N>>),
           If(Apply("<=", <<N, Num(1)>>), N,
              Apply("+", <<FibOf(Apply("-", <<N, Num(1)>>)),
                           FibOf(Apply("-", <<N, Num(2)>>))>>)))

(* the arguments of the calls (fib k) *)
FibArguments == 0..10

(* (let () (begin (define (fib n) ...) (fib k))): the definition and then  *)
(* the call, in one environment                                            *)
DefineAndCallFib(k) == Let(<<>>, Begin(<<DefineFib, FibOf(Num(k))>>))

FibPrograms ==
    {DefineFib} \cup {FibOf(Num(k)) : k \in FibArguments}
    \cup {DefineAndCallFib(k) : k \in FibArguments}

Car == Sym("car")

(* (let ((x (list 1 2)))                                                   *)
(*   (begin (car x) (cdr x) (list? x) (length x) (list-ref x 1)            *)
(*          (append x x) (cons x x) (list x) (define y x)                  *)
(*          (set! x (cons 3 x)) (append x) x))                             *)
PairUses ==
    Let(<<Binding(X, List(<<Num(1), Num(2)>>))>>,
        Begin(<<Apply("car", <<X>>), Apply("cdr", <<X>>), Apply("list?", <<X>>),
                Apply("length", <<X>>), Apply("list-ref", <<X, Num(1)>>),
                AppendOf(<<X, X>>), Cons(X, X), List(<<X>>), Define(Y, X),
                SetBang(X, Cons(Num(3), X)), AppendOf(<<X>>), X>>))

PairTrees == {PairUses}

(* expressions that name a builtin: (set! car 5), (set! nil 5),            *)
(* (define car 5), (del car), (let ((car 5)) (set! car 6)),                *)
(* ((lambda (car) car) 1), (car (cons 1 2)), car, and expressions that     *)
(* name x                                                                  *)
RootPrograms ==
    { SetBang(Car, Num(5)),
      SetBang(Nil, Num(5)),
      Define(Car, Num(5)),
      Del(Car),
      Let(<<Binding(Car, Num(5))>>, SetBang(Car, Num(6))),
      Lst(<<Lambda(<<Car>>, Car), Num(1)>>),
      Lst(<<Car, Cons(Num(1), Num(2))>>),
      Car,
      Define(X, Num(7)),
      SetBang(X, Num(2)),
      Del(X),
      X }

Programs ==
    LookupTrees \cup DefineTrees \cup SetTrees \cup CallTrees \cup IfTrees
    \cup AndTrees \cup OrTrees \cup LetTrees \cup DelTrees \cup EmptyTrees
    \cup DefineShortTrees \cup ListTrees \cup AppendTrees \cup ListRefTrees
    \cup BuiltinTrees \cup NameTrees \cup ReboundTrees \cup PairTrees

---------------------------------------------------------------------------
(* Frame and Pair objects live only while something refers to them: a      *)
(* frame is kept by its holder, by a child frame and by a Function whose   *)
(* enc_frame it is; a Pair by a binding or a slot of another Pair.  The    *)
(* objects created last are dropped once nothing kept refers to them.      *)

ValuesOf(fs, ps) ==
    UNION { {fs[i].variables[n] : n \in DOMAIN fs[i].variables} : i \in 1..Len(fs) }
    \cup { ps[i].car : i \in 1..Len(ps) } \cup { ps[i].cdr : i \in 1..Len(ps) }

(* the frames created last that no holder keeps and no Function left in  *)
(* the frames before them has as its enc_frame are dropped                 *)
ReclaimFrames(fs, ps, keep) ==
    LET stays == {n \in 1..Len(fs) :
                    \/ n = 1
                    \/ n \in keep
                    \/ \E v \in ValuesOf(SubSeq(fs, 1, n - 1), ps) :
                          v.t = "fn" /\ v.enc_frame = n}
        last_kept == CHOOSE n \in stays : \A m \in stays : m <= n
    IN  IF stays = {} THEN fs ELSE SubSeq(fs, 1, last_kept)

RECURSIVE ReclaimPairs(_, _)
ReclaimPairs(fs, ps) ==
    LET n == Len(ps)
        rest == SubSeq(ps, 1, n - 1)
    IN  IF n > 0 /\ VPair(n) \notin ValuesOf(fs, rest)
        THEN ReclaimPairs(fs, rest)
        ELSE ps

(* dropping a Pair can free a frame (the enc_frame of a Function the Pair  *)
(* held) and dropping a frame can free a Pair: repeated until nothing more *)
(* is dropped                                                              *)
RECURSIVE Reclaim(_, _, _)
Reclaim(fs, ps, keep) ==
    LET fs2 == ReclaimFrames(fs, ps, keep)
        ps2 == ReclaimPairs(fs2, ps)
    IN  IF fs2 = fs /\ ps2 = ps THEN [frames |-> fs, pairs |-> ps]
        ELSE Reclaim(fs2, ps2, keep)

---------------------------------------------------------------------------
(* The state machine: the caller (the REPL, a test) creates frames with    *)
(* Frame(parent), evaluates a tree in a frame it holds or with no frame    *)
(* given, and reports the outcome before its next call.                    *)

NumsOf(v) == IF v.t = "num" THEN {v.n} ELSE {}

(* the objects that stay alive after a call, and the numbers they hold,   *)
(* are within the bounds; the objects a call creates and drops are not     *)
(* counted                                                                 *)
Bounded(fs, ps) ==
    /\ Len(fs) <= MaxFrames
    /\ Len(ps) <= MaxPairs
    /\ \A v \in ValuesOf(fs, ps) : NumsOf(v) \subseteq -MaxNum..MaxNum

Idle == [op |-> "idle", tree |-> Lst(<<>>), frame |-> None,
         kind |-> "", val |-> NoVal, log |-> <<>>]

(* module load *)
Init ==
    /\ frames = <<builtins>>
    /\ pairs = <<>>
    /\ held = {}
    /\ last = Idle

(* Frame(parent_frame) *)
NewFrame(p) ==
    /\ last = Idle
    /\ Cardinality(held) < MaxEnvs
    /\ Len(frames) < MaxFrames
    /\ frames' = Append(frames, Frame(p))
    /\ held' = held \cup {Len(frames) + 1}
    /\ UNCHANGED <<pairs, last>>

Commit(tree, f, r) ==
    /\ last = Idle
    /\ r.kind # "Unmodelled"
    /\ frames' = Reclaim(r.st.frames, r.st.pairs, held).frames
    /\ pairs' = Reclaim(r.st.frames, r.st.pairs, held).pairs
    /\ Bounded(frames', pairs')
    /\ last' = [op |-> "evaluate", tree |-> tree, frame |-> f,
                kind |-> r.kind, val |-> r.val, log |-> r.st.log]
    /\ UNCHANGED held

(* evaluate(tree, eval_frame) *)
Evaluate(tree, f) ==
    Commit(tree, f, evaluate(tree, f, Heap(frames, pairs, <<>>), 0))

(* evaluate(tree): a fresh child of `builtins` is the frame *)
EvaluateFresh(tree) ==
    Commit(tree, None, evaluate(tree, None, Heap(frames, pairs, <<>>), 0))

(* the caller prints the result or the exception and drops it *)
Report ==
    /\ last # Idle
    /\ last' = Idle
    /\ UNCHANGED <<frames, pairs, held>>

Next ==
    \/ \E p \in held \cup {1} : NewFrame(p)
    \/ \E tree \in Programs, f \in held : Evaluate(tree, f)
    \/ \E tree \in Programs : EvaluateFresh(tree)
    \/ Report

Spec == Init /\ [][Next]_vars

---------------------------------------------------------------------------
(* The text layer: the caller tokenizes a source text, or parses a list of *)
(* tokens, and reports the outcome before its next call.                   *)

SeqsUpTo(S, n) == UNION {[1..m -> S] : m \in 0..n}

SourceChars == {"(", ")", " ", "\n", ";", "x"}
Sources == SeqsUpTo(SourceChars, MaxSource)

(* tokenize(source) *)
Tokenize(source) ==
    /\ last = Idle
    /\ last' = [op |-> "tokenize", source |-> source, kind |-> "ok",
                out |-> tokenize(source)]
    /\ UNCHANGED <<frames, pairs, held>>

(* the tokens of (+ 2 (- 5 3) 7 8), of ((x) 05), and of (define (x) 5.)  *)
DocTokens ==
    <<Open, <<"+">>, <<"2">>, Open, <<"-">>, <<"5">>, <<"3">>, Close,
      <<"7">>, <<"8">>, Close>>

LongTokenLists ==
    { DocTokens,
      <<Open, Open, <<"x">>, Close, <<"0", "5">>, Close>>,
      <<Open, DefineToken, Open, <<"x">>, Close, <<"5", ".">>, Close>>,
      <<Open, Open, <<"x">>, Close, Close, Close, Open>> }

ParseTokens ==
    {Open, Close, DefineToken, LambdaToken, <<"x">>, <<"5">>, <<"0", "5">>, <<"5", ".">>}

TokenLists == SeqsUpTo(ParseTokens, MaxTokens) \cup LongTokenLists

(* parse(tokens) *)
Parse(tokens) ==
    /\ last = Idle
    /\ LET r == parse(tokens)
       IN  last' = [op |-> "parse", tokens |-> tokens, kind |-> r.kind,
                    tree |-> r.tree]
    /\ UNCHANGED <<frames, pairs, held>>

TextNext ==
    \/ last = Idle /\ \E source \in Sources : Tokenize(source)
    \/ last = Idle /\ \E tokens \in TokenLists : Parse(tokens)
    \/ Report

TextSpec == Init /\ [][TextNext]_vars

---------------------------------------------------------------------------
(* The caller defines fib in a frame it holds and calls it there.          *)

FibNext ==
    \/ \E p \in held \cup {1} : NewFrame(p)
    \/ last = Idle /\ \E tree \in FibPrograms, f \in held : Evaluate(tree, f)
    \/ last = Idle /\ \E tree \in FibPrograms : EvaluateFresh(tree)
    \/ Report

FibSpec == Init /\ [][FibNext]_vars

(* the same caller, with the expressions that name a builtin *)
RootNext ==
    \/ \E p \in held \cup {1} : NewFrame(p)
    \/ last = Idle /\ \E tree \in RootPrograms, f \in held : Evaluate(tree, f)
    \/ last = Idle /\ \E tree \in RootPrograms : EvaluateFresh(tree)
    \/ Report

RootSpec == Init /\ [][RootNext]_vars

---------------------------------------------------------------------------
(* The whole core: a source text is tokenized, parsed and evaluated in a   *)
(* new child of `builtins`, as evaluate_file does with the text of a file  *)
(* and no frame given; the caller reports the outcome before its next     *)
(* call.                                                                   *)

IfToken == <<"i", "f">>
TrueToken == <<"#", "t">>

(* "(if #t)", "(define 5 3)", "(define () 1)", ";x" and "( 5" with a line  *)
(* break in it                                                             *)
SpecialTexts ==
    { Joined(<<Open, IfToken, TrueToken, Close>>),
      Joined(<<Open, DefineToken, <<"5">>, <<"3">>, Close>>),
      Joined(<<Open, DefineToken, Open, Close, <<"1">>, Close>>),
      <<";", "x">>,
      <<"(", "\n", "5">> }

TextTokens ==
    {Open, Close, IfToken, TrueToken, DefineToken, <<"x">>, <<"5">>, <<"+">>}

(* the texts made of up to MaxTokens of these tokens with a space between  *)
(* them, the empty text among them                                         *)
Texts == {Joined(tokens) : tokens \in SeqsUpTo(TextTokens, MaxTokens)} \cup SpecialTexts

(* evaluate_file, given the text: evaluate(parse(tokenize(expression))) *)
EvaluateFile(source) ==
    /\ last = Idle
    /\ LET parsed == parse(tokenize(source))
           r == evaluate(parsed.tree, None, Heap(frames, pairs, <<>>), 0)
       IN  IF parsed.kind # "ok"
           THEN /\ last' = [op |-> "evaluate_file", source |-> source,
                            kind |-> parsed.kind, val |-> NoVal, log |-> <<>>]
                /\ UNCHANGED <<frames, pairs>>
           ELSE /\ r.kind # "Unmodelled"
                /\ frames' = Reclaim(r.st.frames, r.st.pairs, held).frames
                /\ pairs' = Reclaim(r.st.frames, r.st.pairs, held).pairs
                /\ Bounded(frames', pairs')
                /\ last' = [op |-> "evaluate_file", source |-> source,
                            kind |-> r.kind, val |-> r.val, log |-> r.st.log]
    /\ UNCHANGED held

CoreNext ==
    \/ last = Idle /\ \E source \in Texts : EvaluateFile(source)
    \/ Report

CoreSpec == Init /\ [][CoreNext]_vars

---------------------------------------------------------------------------
(* Reading the trace of the last call.                                     *)

Log == last.log

CallsOf(L) == {i \in 1..Len(L) : L[i].ev = "call"}

(* the event that ends the call that starts at L[i] *)
RetOf(L, i) ==
    CHOOSE j \in (i + 1)..Len(L) :
        /\ L[j].ev = "ret" /\ L[j].d = L[i].d
        /\ \A k \in (i + 1)..(j - 1) : ~(L[k].ev = "ret" /\ L[k].d = L[i].d)

(* the calls of evaluate made directly by the call at L[i], in order *)
SubCalls(L, i) ==
    LET S == {k \in (i + 1)..(RetOf(L, i) - 1) :
                 L[k].ev = "call" /\ L[k].d = L[i].d + 1}
    IN  [n \in 1..Cardinality(S) |->
            CHOOSE k \in S : Cardinality({m \in S : m < k}) = n - 1]

(* the frames from f outward to the root *)
RECURSIVE Chain(_, _)
Chain(fs, f) == IF f = None THEN <<>> ELSE <<f>> \o Chain(fs, fs[f].parent_frame)

Definers(fs, f, name) ==
    {j \in 1..Len(Chain(fs, f)) : name \in DOMAIN fs[Chain(fs, f)[j]].variables}

NearestDefiner(fs, f, name) ==
    Chain(fs, f)[CHOOSE j \in Definers(fs, f, name) :
                    \A m \in Definers(fs, f, name) : j <= m]

(* fs2 is fs1 with name bound to v in frame f, and nothing else changed *)
OnlyBound(fs1, fs2, f, name, v) ==
    /\ Len(fs2) = Len(fs1)
    /\ \A i \in 1..Len(fs1) :
          /\ fs2[i].parent_frame = fs1[i].parent_frame
          /\ i # f => fs2[i].variables = fs1[i].variables
    /\ DOMAIN fs2[f].variables = (DOMAIN fs1[f].variables) \cup {name}
    /\ fs2[f].variables[name] = v
    /\ \A n \in (DOMAIN fs1[f].variables) \ {name} :
          fs2[f].variables[n] = fs1[f].variables[n]

IsForm(tree, head, size) ==
    tree.k = "list" /\ Size(tree) = size /\ IsSym(At(tree, 0), head)

---------------------------------------------------------------------------
(* C1: evaluating a symbol in frame F returns the value bound in the       *)
(* nearest frame on F's parent chain (F first, then outward to the root)   *)
(* that defines the symbol, and raises SchemeNameError exactly when no     *)
(* frame on that chain defines it.  Checked for every evaluation of a      *)
(* symbol the last call made, nested ones included.                        *)
C1_NearestBinding ==
    \A i \in CallsOf(Log) :
        Log[i].tree.k = "sym" =>
            LET e == Log[i]
                r == Log[RetOf(Log, i)]
            IN  IF Definers(e.frames, e.frame, e.tree.s) = {}
                THEN r.kind = "SchemeNameError"
                ELSE /\ r.kind = "ok"
                     /\ r.val = e.frames[NearestDefiner(e.frames, e.frame, e.tree.s)]
                                   .variables[e.tree.s]

(* a symbol bound both in the frame of the call and in its parent was     *)
(* resolved on a chain of three frames                                     *)
C1_Witness ==
    \E i \in CallsOf(Log) :
        /\ Log[i].tree.k = "sym"
        /\ Len(Chain(Log[i].frames, Log[i].frame)) = 3
        /\ Cardinality(Definers(Log[i].frames, Log[i].frame, Log[i].tree.s)) = 2
        /\ Log[RetOf(Log, i)].kind = "ok"

---------------------------------------------------------------------------
(* C2: (define name value-expr) evaluated in frame F evaluates value-expr  *)
(* in F, binds name to its value in F and in no other frame (no ancestor's *)
(* bindings change) and returns the value; an evaluation of the name in F  *)
(* that follows, before the name is bound again or deleted, sees that      *)
(* value ((define x 7) then (+ x x) yields 14); and an evaluation of a     *)
(* name with no frame given, which runs in a new child of the root, raises *)
(* SchemeNameError unless the root defines the name.                       *)
C2_DefineEvents(L) ==
    \A i \in CallsOf(L) :
        (IsForm(L[i].tree, "define", 3) /\ At(L[i].tree, 1).k = "sym"
            /\ valid_name(At(L[i].tree, 1).s)) =>
            LET e == L[i]
                r == L[RetOf(L, i)]
                subs == SubCalls(L, i)
            IN  /\ Len(subs) = 1
                /\ L[subs[1]].tree = At(e.tree, 2)
                /\ L[subs[1]].frame = e.frame
                /\ LET rv == L[RetOf(L, subs[1])]
                   IN  IF rv.kind = "ok"
                       THEN /\ r.kind = "ok"
                            /\ r.val = rv.val
                            /\ OnlyBound(rv.frames, r.frames, e.frame,
                                         At(e.tree, 1).s, rv.val)
                       ELSE r.kind = rv.kind /\ r.frames = rv.frames

Rebinds(tree) ==
    tree.k = "list" /\ Size(tree) > 0 /\ At(tree, 0).k = "sym"
    /\ At(tree, 0).s \in {"define", "set!", "del"}

C2_LaterEvaluations(L) ==
    \A i \in CallsOf(L) : \A j \in CallsOf(L) :
        (/\ IsForm(L[i].tree, "define", 3) /\ At(L[i].tree, 1).k = "sym"
         /\ L[RetOf(L, i)].kind = "ok"
         /\ j > RetOf(L, i)
         /\ L[j].tree = At(L[i].tree, 1) /\ L[j].frame = L[i].frame
         /\ \A m \in CallsOf(L) : (RetOf(L, i) < m /\ m < j) => ~Rebinds(L[m].tree)) =>
            /\ L[RetOf(L, j)].kind = "ok"
            /\ L[RetOf(L, j)].val = L[RetOf(L, i)].val

C2_Define ==
    /\ C2_DefineEvents(Log)
    /\ C2_LaterEvaluations(Log)
    /\ (last.op = "evaluate" /\ last.tree = BeginDefineUse) =>
            (last.kind = "ok" /\ last.val = VNum(14))
    /\ (last.op = "evaluate" /\ last.frame = None /\ last.tree.k = "sym"
            /\ last.tree.s \notin DOMAIN Log[1].frames[1].variables) =>
            last.kind = "SchemeNameError"

(* (define x 7) and then (+ x x) have been evaluated in a held frame and   *)
(* yielded 14, x being bound to 7 in that frame and in no other            *)
C2_Witness ==
    /\ last.op = "evaluate" /\ last.tree = BeginDefineUse /\ last.frame # None
    /\ last.val = VNum(14)
    /\ frames[last.frame].variables["x"] = VNum(7)
    /\ \A f \in 1..Len(frames) : f # last.frame => "x" \notin DOMAIN frames[f].variables

---------------------------------------------------------------------------
(* The calls (set! name expr) of a trace: the call of evaluate for expr    *)
(* and its return.                                                         *)
IsSetBang(tree) == IsForm(tree, "set!", 3) /\ At(tree, 1).k = "sym"

ExprRet(L, i) == L[RetOf(L, SubCalls(L, i)[1])]

(* C3: (set! name expr) evaluated in frame F evaluates expr in F; when     *)
(* some frame on F's chain then defines name, it rebinds name in the       *)
(* nearest such frame to the value, returns the value, and changes no      *)
(* other binding of any frame: no frame gains a binding, so neither F nor  *)
(* the root gets a binding for name that it did not have.                  *)
C3_SetBangRebindsNearest ==
    \A i \in CallsOf(Log) :
        IsSetBang(Log[i].tree) =>
            LET e == Log[i]
                r == Log[RetOf(Log, i)]
                name == At(e.tree, 1).s
                subs == SubCalls(Log, i)
            IN  /\ Len(subs) = 1
                /\ Log[subs[1]].tree = At(e.tree, 2)
                /\ Log[subs[1]].frame = e.frame
                /\ LET rv == ExprRet(Log, i)
                   IN  (rv.kind = "ok" /\ Definers(rv.frames, e.frame, name) # {}) =>
                          /\ r.kind = "ok"
                          /\ r.val = rv.val
                          /\ OnlyBound(rv.frames, r.frames,
                                       NearestDefiner(rv.frames, e.frame, name),
                                       name, rv.val)
                          /\ \A f \in 1..Len(r.frames) :
                                DOMAIN r.frames[f].variables = DOMAIN rv.frames[f].variables

(* a set! has rebound a name that its own frame does not define, to a new  *)
(* value                                                                   *)
C3_Witness ==
    \E i \in CallsOf(Log) :
        /\ IsSetBang(Log[i].tree)
        /\ Log[RetOf(Log, i)].kind = "ok"
        /\ LET e == Log[i]
               name == At(e.tree, 1).s
               rv == ExprRet(Log, i)
               nf == NearestDefiner(rv.frames, e.frame, name)
           IN  /\ nf # e.frame
               /\ rv.frames[nf].variables[name] # rv.val

---------------------------------------------------------------------------
(* C4 as claimed: for every value expression, (set! name expr) evaluated   *)
(* where no frame on the chain defines name raises SchemeNameError, and    *)
(* afterwards every frame has exactly the bindings it had before the call. *)
C4_Claimed ==
    \A i \in CallsOf(Log) :
        (IsSetBang(Log[i].tree)
            /\ Definers(Log[i].frames, Log[i].frame, At(Log[i].tree, 1).s) = {}) =>
            /\ Log[RetOf(Log, i)].kind = "SchemeNameError"
            /\ Log[RetOf(Log, i)].frames = Log[i].frames

(* C4 amended: when the evaluation of expr returns a value and no frame on *)
(* the chain defines name at that point, (set! name expr) raises           *)
(* SchemeNameError and every frame has exactly the bindings it had when    *)
(* the evaluation of expr returned.                                        *)
C4_SetBangUndefined ==
    \A i \in CallsOf(Log) :
        IsSetBang(Log[i].tree) =>
            LET e == Log[i]
                r == Log[RetOf(Log, i)]
                rv == ExprRet(Log, i)
            IN  (rv.kind = "ok" /\ Definers(rv.frames, e.frame, At(e.tree, 1).s) = {}) =>
                    /\ r.kind = "SchemeNameError"
                    /\ r.frames = rv.frames

(* a set! of an undefined name has failed after its value expression had   *)
(* changed a frame                                                         *)
C4_Witness ==
    \E i \in CallsOf(Log) :
        /\ IsSetBang(Log[i].tree)
        /\ ExprRet(Log, i).kind = "ok"
        /\ ExprRet(Log, i).frames # Log[i].frames
        /\ Definers(ExprRet(Log, i).frames, Log[i].frame, At(Log[i].tree, 1).s) = {}
        /\ Log[RetOf(Log, i)].kind = "SchemeNameError"

---------------------------------------------------------------------------
(* C5: when two closures were created in the same defining frame and a     *)
(* call of one of them performs set! on a name defined in that frame or an *)
(* ancestor of it, a later call of the other closure observes the new      *)
(* value.  f is (lambda () (set! x 2)) and g is (lambda (y) (+ x y)), both *)
(* created by one evaluation of Defs: after a call (f) that returns, the   *)
(* frames that g's defining frame sees bind x to 2; every call (g 1)       *)
(* yields one more than the value x has on the chain of g's defining frame *)
(* at that moment; and (begin (f) (g 1)) yields 3.                         *)
Lookup(fs, f, name) == fs[NearestDefiner(fs, f, name)].variables[name]

SharedDefiningFrame(fs, f) ==
    /\ Definers(fs, f, "f") # {} /\ Definers(fs, f, "g") # {}
    /\ Lookup(fs, f, "f").t = "fn" /\ Lookup(fs, f, "g").t = "fn"
    /\ Lookup(fs, f, "f").enc_frame = Lookup(fs, f, "g").enc_frame

C5_SharedFrameMutation ==
    /\ \A i \in CallsOf(Log) :
          (Log[i].tree = CallF /\ SharedDefiningFrame(Log[i].frames, Log[i].frame)
              /\ Log[RetOf(Log, i)].kind = "ok") =>
              LET enc == Lookup(Log[i].frames, Log[i].frame, "g").enc_frame
              IN  Lookup(Log[RetOf(Log, i)].frames, enc, "x") = VNum(2)
    /\ \A i \in CallsOf(Log) :
          (Log[i].tree = CallG /\ SharedDefiningFrame(Log[i].frames, Log[i].frame)) =>
              LET enc == Lookup(Log[i].frames, Log[i].frame, "g").enc_frame
              IN  (Definers(Log[i].frames, enc, "x") # {}
                      /\ Lookup(Log[i].frames, enc, "x").t = "num") =>
                      /\ Log[RetOf(Log, i)].kind = "ok"
                      /\ Log[RetOf(Log, i)].val =
                            VNum(Lookup(Log[i].frames, enc, "x").n + 1)
    /\ (last.op = "evaluate" /\ last.tree = BeginFG /\ last.frame # None
            /\ SharedDefiningFrame(Log[1].frames, last.frame)
            /\ Definers(Log[1].frames,
                        Lookup(Log[1].frames, last.frame, "g").enc_frame, "x") # {}) =>
            (last.kind = "ok" /\ last.val = VNum(3))

(* (begin (f) (g 1)) has yielded 3 where x was 7, and g was created in the *)
(* frame f was created in                                                  *)
C5_Witness ==
    /\ last.op = "evaluate" /\ last.tree = BeginFG /\ last.frame # None
    /\ SharedDefiningFrame(Log[1].frames, last.frame)
    /\ Definers(Log[1].frames,
                Lookup(Log[1].frames, last.frame, "g").enc_frame, "x") # {}
    /\ Lookup(Log[1].frames, Lookup(Log[1].frames, last.frame, "g").enc_frame, "x")
          = VNum(7)
    /\ last.val = VNum(3)

---------------------------------------------------------------------------
(* Applications: list expressions whose head is no special form.           *)
SpecialForms == {"set!", "let", "del", "list", "cons", "if", "and", "or",
                 "define", "lambda"}

IsApply(tree) ==
    /\ tree.k = "list" /\ Size(tree) > 0
    /\ ~(At(tree, 0).k = "sym" /\ At(tree, 0).s \in SpecialForms)

OpRet(L, i) == L[RetOf(L, SubCalls(L, i)[1])]

IsClosureCall(L, i) ==
    IsApply(L[i].tree) /\ OpRet(L, i).kind = "ok" /\ OpRet(L, i).val.t = "fn"

(* C6: applying a closure to as many argument expressions as it has        *)
(* parameters evaluates the argument expressions in the caller's frame, in *)
(* order; then it creates one frame that did not exist before, whose       *)
(* parent is the closure's defining frame and whose bindings are exactly   *)
(* the parameters bound to the argument values by position, changes no     *)
(* other frame, and evaluates the body in the new frame; the outcome of    *)
(* the body is the outcome of the call.                                    *)
C6_ClosureCall ==
    \A i \in CallsOf(Log) :
        (IsClosureCall(Log, i)
            /\ Size(Log[i].tree) - 1 = Size(OpRet(Log, i).val.params)) =>
            LET e == Log[i]
                r == Log[RetOf(Log, i)]
                subs == SubCalls(Log, i)
                c == OpRet(Log, i).val
                n == Size(e.tree) - 1
                ArgRet(j) == Log[RetOf(Log, subs[j + 1])]
            IN  /\ \A j \in 1..n : (j + 1 <= Len(subs)) =>
                      /\ Log[subs[j + 1]].tree = At(e.tree, j)
                      /\ Log[subs[j + 1]].frame = e.frame
                /\ IF Len(subs) >= n + 1 /\ \A j \in 1..n : ArgRet(j).kind = "ok"
                   THEN /\ Len(subs) = n + 2
                        /\ LET b == Log[subs[n + 2]]
                               prev == Log[RetOf(Log, subs[n + 1])]
                               br == Log[RetOf(Log, subs[n + 2])]
                           IN  /\ b.tree = c.body
                               /\ b.frame = Len(prev.frames) + 1
                               /\ Len(b.frames) = Len(prev.frames) + 1
                               /\ SubSeq(b.frames, 1, Len(prev.frames)) = prev.frames
                               /\ b.frames[b.frame].parent_frame = c.enc_frame
                               /\ DOMAIN b.frames[b.frame].variables =
                                     {c.params.xs[j].s : j \in 1..n}
                               /\ \A j \in 1..n :
                                     b.frames[b.frame].variables[c.params.xs[j].s]
                                        = ArgRet(j).val
                               /\ r.kind = br.kind /\ r.val = br.val
                               /\ r.frames = br.frames
                   ELSE /\ Len(subs) <= n + 1
                        /\ r.kind = Log[RetOf(Log, subs[Len(subs)])].kind
                        /\ r.kind # "ok"

(* a closure has been called with an argument from a frame that is not its *)
(* defining frame and binds a name free in its body                        *)
C6_Witness ==
    \E i \in CallsOf(Log) :
        /\ IsClosureCall(Log, i)
        /\ Size(Log[i].tree) = 2 /\ Size(OpRet(Log, i).val.params) = 1
        /\ OpRet(Log, i).val.enc_frame # Log[i].frame
        /\ "x" \in DOMAIN Log[i].frames[Log[i].frame].variables
        /\ Definers(Log[i].frames, OpRet(Log, i).val.enc_frame, "x") # {}
        /\ Log[RetOf(Log, i)].kind = "ok"

---------------------------------------------------------------------------
(* C7: applying a closure to a number of argument expressions different    *)
(* from its number of parameters raises SchemeEvaluationError; neither the *)
(* argument expressions nor the body are evaluated and no frame is created *)
(* or changed.                                                             *)
C7_ArityMismatch ==
    \A i \in CallsOf(Log) :
        (IsClosureCall(Log, i)
            /\ Size(Log[i].tree) - 1 # Size(OpRet(Log, i).val.params)) =>
            /\ Len(SubCalls(Log, i)) = 1
            /\ Log[RetOf(Log, i)].kind = "SchemeEvaluationError"
            /\ Log[RetOf(Log, i)].frames = OpRet(Log, i).frames

(* a closure without parameters has been applied to an expression that     *)
(* would have made a binding                                               *)
C7_Witness ==
    \E i \in CallsOf(Log) :
        /\ IsClosureCall(Log, i)
        /\ Size(OpRet(Log, i).val.params) = 0
        /\ Size(Log[i].tree) = 2
        /\ IsForm(At(Log[i].tree, 1), "define", 3)
        /\ Log[RetOf(Log, i)].kind = "SchemeEvaluationError"

---------------------------------------------------------------------------
(* C8: a non-empty compound expression whose operator position evaluates   *)
(* to a number, a boolean value, the empty list or a Pair raises           *)
(* SchemeEvaluationError.                                                  *)
C8_NotCallable ==
    \A i \in CallsOf(Log) :
        (IsApply(Log[i].tree) /\ OpRet(Log, i).kind = "ok"
            /\ OpRet(Log, i).val.t \in {"num", "str", "nil", "pair"}) =>
            Log[RetOf(Log, i)].kind = "SchemeEvaluationError"

(* an expression whose operator is a Pair has been evaluated *)
C8_Witness ==
    \E i \in CallsOf(Log) :
        /\ IsApply(Log[i].tree)
        /\ OpRet(Log, i).kind = "ok"
        /\ OpRet(Log, i).val.t = "pair"
        /\ Log[RetOf(Log, i)].kind = "SchemeEvaluationError"

---------------------------------------------------------------------------
(* The calls (if cond then else) of a trace.  The condition is a value     *)
(* already when it is the token #t or #f; otherwise it is the outcome of   *)
(* the first call of evaluate the if makes.                                *)
IsIf(tree) == IsForm(tree, "if", 4)

CondOutcome(L, i) ==
    IF IsBoolTok(At(L[i].tree, 1))
    THEN [kind |-> "ok", val |-> VStr(At(L[i].tree, 1).s), frames |-> L[i].frames]
    ELSE LET cv == L[RetOf(L, SubCalls(L, i)[1])]
         IN  [kind |-> cv.kind, val |-> cv.val, frames |-> cv.frames]

(* the calls of evaluate the if makes after the one for the condition *)
BranchCalls(L, i) ==
    LET subs == SubCalls(L, i)
    IN  IF IsBoolTok(At(L[i].tree, 1)) THEN subs ELSE Tail(subs)

(* the if at L[i] has taken the branch tree[b], and nothing else *)
TookBranch(L, i, b) ==
    LET e == L[i]
        r == L[RetOf(L, i)]
        calls == BranchCalls(L, i)
    IN  IF IsBoolTok(At(e.tree, b))
        THEN /\ calls = <<>>
             /\ r.kind = "ok" /\ r.val = VStr(At(e.tree, b).s)
             /\ r.frames = CondOutcome(L, i).frames
        ELSE /\ Len(calls) = 1
             /\ L[calls[1]].tree = At(e.tree, b)
             /\ L[calls[1]].frame = e.frame
             /\ L[calls[1]].frames = CondOutcome(L, i).frames
             /\ LET br == L[RetOf(L, calls[1])]
                IN  r.kind = br.kind /\ r.val = br.val /\ r.frames = br.frames

(* C9 as claimed: (if cond then else) takes the else-branch exactly when   *)
(* cond evaluates to the false value, and the then-branch for every other  *)
(* result of cond (true, a number, a Pair, the empty list, a procedure).   *)
C9_Claimed ==
    \A i \in CallsOf(Log) :
        (IsIf(Log[i].tree) /\ CondOutcome(Log, i).kind = "ok") =>
            IF CondOutcome(Log, i).val = VStr("#f")
            THEN TookBranch(Log, i, 3)
            ELSE TookBranch(Log, i, 2)

---------------------------------------------------------------------------
(* C10: evaluating (if cond then else) evaluates cond once (not at all     *)
(* when it is the token #t or #f) and then exactly one of the two          *)
(* branches, once: when cond raises, no branch is evaluated; nothing is    *)
(* evaluated or changed between cond and the branch or after the branch,   *)
(* so the effects and errors of the other branch do not occur.             *)
C10_OnlyTakenBranch ==
    \A i \in CallsOf(Log) :
        IsIf(Log[i].tree) =>
            LET e == Log[i]
                r == Log[RetOf(Log, i)]
                subs == SubCalls(Log, i)
            IN  /\ ~IsBoolTok(At(e.tree, 1)) =>
                      /\ Len(subs) >= 1
                      /\ Log[subs[1]].tree = At(e.tree, 1)
                      /\ Log[subs[1]].frame = e.frame
                /\ IF CondOutcome(Log, i).kind # "ok"
                   THEN /\ Len(subs) = 1
                        /\ r.kind = CondOutcome(Log, i).kind
                        /\ r.frames = CondOutcome(Log, i).frames
                   ELSE TookBranch(Log, i, 2) \/ TookBranch(Log, i, 3)

(* an if has taken one branch while the other one would have changed a     *)
(* frame                                                                   *)
C10_Witness ==
    \E i \in CallsOf(Log) :
        /\ IsIf(Log[i].tree)
        /\ ~IsBoolTok(At(Log[i].tree, 1))
        /\ At(Log[i].tree, 2).k = "list" /\ At(Log[i].tree, 3).k = "list"
        /\ Len(SubCalls(Log, i)) = 2
        /\ Log[RetOf(Log, i)].kind = "ok"
        /\ Log[RetOf(Log, i)].frames # Log[i].frames

---------------------------------------------------------------------------
(* The calls (and e1 ... en) and (or e1 ... en) of a trace.  An operand    *)
(* that is the token #t or #f is that boolean value and is not evaluated;  *)
(* every other operand that is reached is evaluated by one call of         *)
(* evaluate, so the k-th operand's call is the NonLit(k)-th the form makes.*)
Operands(tree) == From(tree, 1)

NonLit(ops, k) == Cardinality({j \in 1..k : ~IsBoolTok(ops[j])})

Evaluated(L, i, k) ==
    IsBoolTok(Operands(L[i].tree)[k])
        \/ NonLit(Operands(L[i].tree), k) <= Len(SubCalls(L, i))

OperandOutcome(L, i, k) ==
    LET ops == Operands(L[i].tree)
    IN  IF IsBoolTok(ops[k])
        THEN [kind |-> "ok", val |-> VStr(ops[k].s)]
        ELSE LET rv == L[RetOf(L, SubCalls(L, i)[NonLit(ops, k)])]
             IN  [kind |-> rv.kind, val |-> rv.val]

(* the operand k ends the form: it raises, or its value is `stop` *)
Ends(L, i, k, stop) ==
    /\ Evaluated(L, i, k)
    /\ \/ OperandOutcome(L, i, k).kind # "ok"
       \/ OperandOutcome(L, i, k).val = VStr(stop)

(* the form at L[i] evaluates its operands left to right in its own frame, *)
(* each at most once, up to the first that ends it and none after it; it   *)
(* returns `stop` when an operand's value is `stop`, `other` when no       *)
(* operand ends it, and raises what the operand raises; it changes no      *)
(* frame itself.                                                           *)
ShortCircuit(L, i, stop, other) ==
    LET e == L[i]
        r == L[RetOf(L, i)]
        ops == Operands(e.tree)
        n == Len(ops)
        subs == SubCalls(L, i)
        ends == {k \in 1..n : Ends(L, i, k, stop)}
        reached == IF ends = {} THEN n
                   ELSE CHOOSE k \in ends : \A m \in ends : k <= m
    IN  /\ Len(subs) = NonLit(ops, reached)
        /\ \A k \in 1..reached :
              ~IsBoolTok(ops[k]) =>
                  /\ L[subs[NonLit(ops, k)]].tree = ops[k]
                  /\ L[subs[NonLit(ops, k)]].frame = e.frame
        /\ r.frames = (IF subs = <<>> THEN e.frames
                       ELSE L[RetOf(L, subs[Len(subs)])].frames)
        /\ IF ends = {} THEN r.kind = "ok" /\ r.val = VStr(other)
           ELSE IF OperandOutcome(L, i, reached).kind = "ok"
                THEN r.kind = "ok" /\ r.val = VStr(stop)
                ELSE r.kind = OperandOutcome(L, i, reached).kind
        /\ r.kind = "ok" => r.val \in {VStr("#t"), VStr("#f")}

IsAnd(tree) == tree.k = "list" /\ Size(tree) >= 1 /\ IsSym(At(tree, 0), "and")
IsOr(tree) == tree.k = "list" /\ Size(tree) >= 1 /\ IsSym(At(tree, 0), "or")

(* C11: (and e1 ... en) evaluates its operands left to right, stops at the *)
(* first operand whose value is false (#f) and returns false without       *)
(* evaluating the operands after it, and otherwise returns true, also for  *)
(* n = 0; when it returns, the result is #t or #f.                         *)
C11_And ==
    \A i \in CallsOf(Log) : IsAnd(Log[i].tree) => ShortCircuit(Log, i, "#f", "#t")

(* an `and` has returned #f at an operand that is not the last one, the    *)
(* operand after it being an expression that would have bound a name       *)
C11_Witness ==
    \E i \in CallsOf(Log) :
        /\ IsAnd(Log[i].tree)
        /\ Log[RetOf(Log, i)].kind = "ok" /\ Log[RetOf(Log, i)].val = VStr("#f")
        /\ Len(SubCalls(Log, i)) = 1
        /\ Size(Log[i].tree) = 3
        /\ IsForm(At(Log[i].tree, 2), "define", 3)
        /\ Log[RetOf(Log, i)].frames = Log[i].frames

---------------------------------------------------------------------------
(* C12: (or e1 ... en) evaluates its operands left to right, stops at the  *)
(* first operand whose value is true (#t) and returns true without         *)
(* evaluating the operands after it, and otherwise returns false, also for *)
(* n = 0; when it returns, the result is #t or #f.  Only the value #t ends *)
(* the form: an operand whose value is a number, a Pair, nil or a          *)
(* procedure does not, so (or 5) is #f.                                    *)
C12_Or ==
    \A i \in CallsOf(Log) : IsOr(Log[i].tree) => ShortCircuit(Log, i, "#t", "#f")

(* an `or` has returned #t at an operand that is not the last one, the     *)
(* operand after it being an expression that would have bound a name       *)
C12_Witness ==
    \E i \in CallsOf(Log) :
        /\ IsOr(Log[i].tree)
        /\ Log[RetOf(Log, i)].kind = "ok" /\ Log[RetOf(Log, i)].val = VStr("#t")
        /\ Len(SubCalls(Log, i)) = 1
        /\ Size(Log[i].tree) = 3
        /\ IsForm(At(Log[i].tree, 2), "define", 3)
        /\ Log[RetOf(Log, i)].frames = Log[i].frames

---------------------------------------------------------------------------
(* The calls (let ((n1 e1) ... (nk ek)) body) of a trace.                  *)
IsLet(tree) ==
    /\ IsForm(tree, "let", 3)
    /\ At(tree, 1).k = "list"
    /\ \A j \in 1..Size(At(tree, 1)) :
          /\ At(tree, 1).xs[j].k = "list"
          /\ Size(At(tree, 1).xs[j]) = 2
          /\ At(At(tree, 1).xs[j], 0).k = "sym"

LetName(tree, j) == At(At(tree, 1).xs[j], 0).s
LetExpr(tree, j) == At(At(tree, 1).xs[j], 1)

(* C13: (let ((n1 e1) ... (nk ek)) body) evaluates e1..ek in order in the  *)
(* current frame, before any name of the let is bound (no ei sees an nj of *)
(* the same let); when one of them raises, the let raises it and nothing   *)
(* else is evaluated; otherwise one new frame is created, a child of the   *)
(* current frame that binds exactly n1..nk to the values (the last         *)
(* occurrence of a repeated name wins), every existing frame keeping its   *)
(* bindings, and the body is evaluated in that child, its outcome being    *)
(* the let's outcome.  (let ((x 1) (y x)) y) yields the x of the current   *)
(* frame's chain, not 1.                                                   *)
C13_Let ==
    /\ \A i \in CallsOf(Log) :
          IsLet(Log[i].tree) =>
            LET e == Log[i]
                r == Log[RetOf(Log, i)]
                subs == SubCalls(Log, i)
                k == Size(At(e.tree, 1))
                raised == {j \in 1..Len(subs) : Log[RetOf(Log, subs[j])].kind # "ok"}
            IN  /\ Len(subs) <= k + 1
                /\ \A j \in 1..Len(subs) :
                      j <= k =>
                          /\ Log[subs[j]].tree = LetExpr(e.tree, j)
                          /\ Log[subs[j]].frame = e.frame
                          /\ j = 1 => Log[subs[j]].frames = e.frames
                          /\ j > 1 => Log[subs[j]].frames = Log[RetOf(Log, subs[j - 1])].frames
                /\ (\E j \in raised : j <= k) =>
                      /\ Len(subs) \in raised /\ Cardinality(raised) = 1
                      /\ r.kind = Log[RetOf(Log, subs[Len(subs)])].kind
                      /\ r.frames = Log[RetOf(Log, subs[Len(subs)])].frames
                /\ ~(\E j \in raised : j <= k) =>
                      LET before == IF k = 0 THEN e.frames
                                    ELSE Log[RetOf(Log, subs[k])].frames
                          body == Log[subs[k + 1]]
                          child == body.frame
                      IN  /\ Len(subs) = k + 1
                          /\ body.tree = At(e.tree, 2)
                          /\ child = Len(before) + 1
                          /\ Len(body.frames) = Len(before) + 1
                          /\ SubSeq(body.frames, 1, Len(before)) = before
                          /\ body.frames[child].parent_frame = e.frame
                          /\ DOMAIN body.frames[child].variables =
                                {LetName(e.tree, j) : j \in 1..k}
                          /\ \A j \in 1..k :
                                (\A m \in (j + 1)..k :
                                    LetName(e.tree, m) # LetName(e.tree, j)) =>
                                    body.frames[child].variables[LetName(e.tree, j)]
                                        = Log[RetOf(Log, subs[j])].val
                          /\ r.kind = Log[RetOf(Log, subs[k + 1])].kind
                          /\ r.val = Log[RetOf(Log, subs[k + 1])].val
                          /\ r.frames = Log[RetOf(Log, subs[k + 1])].frames
    /\ (last.op = "evaluate" /\ last.tree = LetXY /\ last.frame # None) =>
          IF Definers(Log[1].frames, last.frame, "x") = {}
          THEN last.kind = "SchemeNameError"
          ELSE last.kind = "ok"
               /\ last.val = Lookup(Log[1].frames, last.frame, "x")

(* (let ((x 1) (y x)) y) has yielded 7, the x of the current frame, and    *)
(* the current frame still binds x to 7 and binds no y                     *)
C13_Witness ==
    /\ last.op = "evaluate" /\ last.tree = LetXY /\ last.frame # None
    /\ last.kind = "ok" /\ last.val = VNum(7)
    /\ "x" \in DOMAIN frames[last.frame].variables
    /\ frames[last.frame].variables["x"] = VNum(7)
    /\ "y" \notin DOMAIN frames[last.frame].variables

---------------------------------------------------------------------------
(* The calls (del name) of a trace.                                        *)
IsDel(tree) == IsForm(tree, "del", 2) /\ At(tree, 1).k = "sym"

(* fs2 is fs1 without the binding of name in frame f, nothing else changed *)
OnlyUnbound(fs1, fs2, f, name) ==
    /\ Len(fs2) = Len(fs1)
    /\ \A i \in 1..Len(fs1) :
          /\ fs2[i].parent_frame = fs1[i].parent_frame
          /\ i # f => fs2[i].variables = fs1[i].variables
    /\ DOMAIN fs2[f].variables = (DOMAIN fs1[f].variables) \ {name}
    /\ \A n \in DOMAIN fs2[f].variables :
          fs2[f].variables[n] = fs1[f].variables[n]

(* C14: (del name) evaluated in frame F evaluates nothing else; when F     *)
(* itself binds name it removes that binding from F, changes no other      *)
(* binding of any frame and returns the value name had in F; when F does   *)
(* not bind name it raises SchemeNameError and changes nothing, even when  *)
(* an ancestor of F defines name; an evaluation of name in F that follows  *)
(* a successful del, before name is bound again, yields the binding of the *)
(* nearest ancestor of F that defines name and raises SchemeNameError when *)
(* none does.                                                              *)
C14_Del ==
    /\ \A i \in CallsOf(Log) :
          IsDel(Log[i].tree) =>
            LET e == Log[i]
                r == Log[RetOf(Log, i)]
                name == At(e.tree, 1).s
            IN  /\ SubCalls(Log, i) = <<>>
                /\ IF name \in DOMAIN e.frames[e.frame].variables
                   THEN /\ r.kind = "ok"
                        /\ r.val = e.frames[e.frame].variables[name]
                        /\ OnlyUnbound(e.frames, r.frames, e.frame, name)
                   ELSE /\ r.kind = "SchemeNameError"
                        /\ r.frames = e.frames
    /\ \A i \in CallsOf(Log) : \A j \in CallsOf(Log) :
          (/\ IsDel(Log[i].tree)
           /\ Log[RetOf(Log, i)].kind = "ok"
           /\ j > RetOf(Log, i)
           /\ Log[j].tree = At(Log[i].tree, 1) /\ Log[j].frame = Log[i].frame
           /\ \A m \in CallsOf(Log) :
                 (RetOf(Log, i) < m /\ m < j) => ~Rebinds(Log[m].tree)) =>
              LET name == At(Log[i].tree, 1).s
                  parent == Log[i].frames[Log[i].frame].parent_frame
                  rj == Log[RetOf(Log, j)]
              IN  IF parent = None \/ Definers(Log[i].frames, parent, name) = {}
                  THEN rj.kind = "SchemeNameError"
                  ELSE rj.kind = "ok"
                       /\ rj.val = Lookup(Log[i].frames, parent, name)

(* a del has removed x from a frame whose parent chain binds x too, and    *)
(* the evaluation of x that followed in that frame yielded the ancestor's  *)
(* value                                                                   *)
C14_Witness ==
    /\ last.op = "evaluate" /\ last.tree = LetDelLookup
    /\ last.kind = "ok" /\ last.val = VNum(7)
    /\ \E i \in CallsOf(Log) :
          /\ IsDel(Log[i].tree)
          /\ Log[RetOf(Log, i)].kind = "ok" /\ Log[RetOf(Log, i)].val = VNum(5)

---------------------------------------------------------------------------
(* C15 as claimed: evaluating the empty compound expression () in any      *)
(* frame is not an error: the call returns without raising anything and    *)
(* without changing any frame.                                             *)
C15_Claimed ==
    \A i \in CallsOf(Log) :
        Log[i].tree = Empty =>
            /\ Log[RetOf(Log, i)].kind = "ok"
            /\ Log[RetOf(Log, i)].frames = Log[i].frames

---------------------------------------------------------------------------
(* The calls (define (name params...) body) of a trace, and the long form  *)
(* (define name (lambda (params...) body)) of each.                        *)
IsShortDefine(tree) ==
    /\ IsForm(tree, "define", 3)
    /\ At(tree, 1).k = "list" /\ Size(At(tree, 1)) >= 1
    /\ At(At(tree, 1), 0).k = "sym"

LongForm(tree) ==
    Define(At(At(tree, 1), 0), Lambda(From(At(tree, 1), 1), At(tree, 2)))

(* C16 as claimed: for every name, parameter list and body, evaluating     *)
(* (define (name params...) body) and evaluating                           *)
(* (define name (lambda (params...) body)) in equal environments have the  *)
(* same outcome: both return or both raise the same exception, and when    *)
(* they return both have bound name in the current frame to a closure with *)
(* the same parameters, body and defining frame, and returned it.          *)
C16_Claimed ==
    \A i \in CallsOf(Log) :
        IsShortDefine(Log[i].tree) =>
            LET e == Log[i]
                r == Log[RetOf(Log, i)]
                long == evaluate(LongForm(e.tree), e.frame,
                                 Heap(e.frames, e.pairs, <<>>), 0)
            IN  /\ r.kind = long.kind
                /\ r.kind = "ok" =>
                      /\ r.val = long.val
                      /\ r.val = VFn(Lst(From(At(e.tree, 1), 1)), At(e.tree, 2), e.frame)
                      /\ r.frames = long.st.frames
                      /\ r.frames[e.frame].variables[At(At(e.tree, 1), 0).s] = r.val

---------------------------------------------------------------------------
(* The calls (list e1 ... en) of a trace.                                  *)
IsList(tree) == tree.k = "list" /\ Size(tree) >= 1 /\ IsSym(At(tree, 0), "list")

(* C17 as claimed: in every environment, whatever names it binds or        *)
(* rebinds, (list) evaluates to the empty list nil, and (list e1 ... en)   *)
(* has the effects of evaluating e1..en left to right in the current       *)
(* frame, each once, and yields a proper list of length n whose i-th       *)
(* element is the value of ei; when an ei raises, list raises it.          *)
C17_Claimed ==
    \A i \in CallsOf(Log) :
        IsList(Log[i].tree) =>
            LET e == Log[i]
                r == Log[RetOf(Log, i)]
                elems == evalseq(Operands(e.tree), e.frame,
                                 Heap(e.frames, e.pairs, <<>>), 0)
            IN  IF elems.kind # "ok" THEN r.kind = elems.kind
                ELSE /\ r.kind = "ok"
                     /\ ListEnd(r.pairs, r.val) = VNil
                     /\ ListElems(r.pairs, r.val) = elems.vals
                     /\ r.frames = elems.st.frames

---------------------------------------------------------------------------
(* The tokens of a source text, read off its positions: a position is in a *)
(* comment when a ';' at or before it is followed by no line break up to   *)
(* it; a token is a parenthesis outside comments, or a run of characters   *)
(* outside comments that are neither whitespace nor parentheses and that   *)
(* cannot be extended on either side.                                      *)
InComment(src, p) ==
    \E q \in 1..p : src[q] = ";" /\ \A m \in q..p : src[m] # "\n"

Ordinary(src, p) ==
    ~InComment(src, p) /\ src[p] \notin Whitespace \cup Parens

ParenAt(src, p) == ~InComment(src, p) /\ src[p] \in Parens

Starts(src) ==
    {p \in 1..Len(src) :
        \/ ParenAt(src, p)
        \/ Ordinary(src, p) /\ (p = 1 \/ ~Ordinary(src, p - 1))}

EndOf(src, p) ==
    IF ParenAt(src, p) THEN p
    ELSE CHOOSE q \in p..Len(src) :
            /\ \A m \in p..q : Ordinary(src, m)
            /\ q = Len(src) \/ ~Ordinary(src, q + 1)

TokensOf(src) ==
    [n \in 1..Cardinality(Starts(src)) |->
        LET p == CHOOSE q \in Starts(src) :
                    Cardinality({m \in Starts(src) : m < q}) = n - 1
        IN  SubSeq(src, p, EndOf(src, p))]

(* C20: for every source text tokenize returns (it never raises), in       *)
(* source order, exactly the tokens of the text with each line cut at its  *)
(* first ';': every '(' and ')' is a token of its own and every other      *)
(* token is a maximal run of characters that are neither parentheses nor   *)
(* whitespace; no token is empty, and no token contains whitespace or ';', *)
(* or a parenthesis next to another character.                             *)
C20_Tokenize ==
    last.op = "tokenize" =>
        /\ last.kind = "ok"
        /\ last.out = TokensOf(last.source)
        /\ \A n \in 1..Len(last.out) :
              LET token == last.out[n]
              IN  /\ token # <<>>
                  /\ \/ token \in {<<"(">>, <<")">>}
                     \/ \A m \in 1..Len(token) :
                           token[m] \notin Whitespace \cup Parens \cup {";"}

(* a text with a token before a ';', a comment holding a parenthesis, and  *)
(* a token on the next line has been tokenized to two tokens               *)
C20_Witness ==
    /\ last.op = "tokenize"
    /\ last.source = <<"x", ";", "(", "\n", ")">>
    /\ last.out = << <<"x">>, <<")">> >>

---------------------------------------------------------------------------
(* C18: for every list of tokens in which the number of '(' tokens differs *)
(* from the number of ')' tokens, or a ')' occurs before the first '(', or *)
(* a define or lambda token occurs while the list holds no '(' at all,     *)
(* parse raises SchemeSyntaxError and nothing else.                        *)
Unbalanced(tokens) ==
    \/ Count(tokens, Open) # Count(tokens, Close)
    \/ \E i \in 1..Len(tokens) :
          tokens[i] = Close /\ \A j \in 1..(i - 1) : tokens[j] # Open
    \/ /\ \A i \in 1..Len(tokens) : tokens[i] # Open
       /\ \E i \in 1..Len(tokens) : tokens[i] \in {DefineToken, LambdaToken}

C18_ParseErrors ==
    (last.op = "parse" /\ Unbalanced(last.tokens)) => last.kind = "SchemeSyntaxError"

(* parse has refused a list with as many '(' as ')' whose first ')' comes  *)
(* before its first '('                                                    *)
C18_Witness ==
    /\ last.op = "parse"
    /\ last.tokens = <<Close, <<"x">>, Open>>
    /\ last.kind = "SchemeSyntaxError"

---------------------------------------------------------------------------
(* One balanced expression: a single token that is no parenthesis, or a    *)
(* list of tokens that starts with '(', ends with the ')' that matches it  *)
(* and never closes more than it has opened.                               *)
Depth(tokens, i) ==
    Cardinality({j \in 1..i : tokens[j] = Open})
        - Cardinality({j \in 1..i : tokens[j] = Close})

OneExpression(tokens) ==
    /\ Len(tokens) >= 1
    /\ IF Len(tokens) = 1 THEN tokens[1] \notin {Open, Close}
       ELSE /\ tokens[1] = Open
            /\ \A i \in 1..(Len(tokens) - 1) : Depth(tokens, i) >= 1
            /\ Depth(tokens, Len(tokens)) = 0

(* the atom each token of the model stands for *)
AtomOf(token) ==
    CASE token = DefineToken -> Sym("define")
      [] token = LambdaToken -> Sym("lambda")
      [] token = <<"x">> -> Sym("x")
      [] token = <<"+">> -> Sym("+")
      [] token = <<"-">> -> Sym("-")
      [] token = <<"5", ".">> -> [k |-> "float", neg |-> FALSE, m |-> 5, e |-> 0]
      [] token = <<"0", "5">> -> Num(5)
      [] token = <<"2">> -> Num(2)
      [] token = <<"3">> -> Num(3)
      [] token = <<"5">> -> Num(5)
      [] token = <<"7">> -> Num(7)
      [] token = <<"8">> -> Num(8)

(* the tree written out: marks for '(' and ')' around the elements of a    *)
(* list                                                                    *)
OpenMark == [k |-> "open"]
CloseMark == [k |-> "close"]

RECURSIVE Flatten(_)
RECURSIVE FlattenAll(_)
Flatten(tree) ==
    IF tree.k = "list" THEN <<OpenMark>> \o FlattenAll(tree.xs) \o <<CloseMark>>
    ELSE <<tree>>
FlattenAll(trees) ==
    IF trees = <<>> THEN <<>> ELSE Flatten(Head(trees)) \o FlattenAll(Tail(trees))

(* str(n) for an integer, repr(x) for a float *)
RECURSIVE DigitsOf(_)
DigitsOf(n) ==
    LET d == CHOOSE c \in Digits : DigitVal(c) = n % 10
    IN  IF n < 10 THEN <<d>> ELSE Append(DigitsOf(n \div 10), d)

RECURSIVE Pow10(_)
Pow10(e) == IF e = 0 THEN 1 ELSE 10 * Pow10(e - 1)

RECURSIVE Padded(_, _)
Padded(ds, e) == IF Len(ds) >= e THEN ds ELSE Padded(<<"0">> \o ds, e)

Written(atom) ==
    IF atom = OpenMark THEN Open
    ELSE IF atom = CloseMark THEN Close
    ELSE IF atom.k = "num"
    THEN (IF atom.n < 0 THEN <<"-">> \o DigitsOf(0 - atom.n) ELSE DigitsOf(atom.n))
    ELSE IF atom.k = "float"
    THEN (IF atom.neg THEN <<"-">> ELSE <<>>)
            \o DigitsOf(atom.m \div Pow10(atom.e)) \o <<".">>
            \o (IF atom.e = 0 THEN <<"0">>
                ELSE Padded(DigitsOf(atom.m % Pow10(atom.e)), atom.e))
    ELSE IF atom.s = "define" THEN DefineToken
    ELSE IF atom.s = "lambda" THEN LambdaToken
    ELSE <<atom.s>>

(* the tree flattened back to tokens *)
Unparse(tree) == [i \in 1..Len(Flatten(tree)) |-> Written(Flatten(tree)[i])]

(* the tokens with every token that is no parenthesis replaced by its atom *)
Atoms(tokens) ==
    [i \in 1..Len(tokens) |->
        IF tokens[i] = Open THEN OpenMark
        ELSE IF tokens[i] = Close THEN CloseMark
        ELSE AtomOf(tokens[i])]

DocTree ==
    Lst(<<Sym("+"), Num(2), Lst(<<Sym("-"), Num(5), Num(3)>>), Num(7), Num(8)>>)

(* C19 as claimed: for every list of tokens that is one balanced           *)
(* expression parse returns the tree whose nesting mirrors the             *)
(* parentheses, each other token being one atom (integer, else float, else *)
(* symbol), in token order, so that flattening the tree back to tokens     *)
(* reproduces the input; the tokens of (+ 2 (- 5 3) 7 8) parse to          *)
(* ["+", 2, ["-", 5, 3], 7, 8].                                            *)
C19_Claimed ==
    (last.op = "parse" /\ OneExpression(last.tokens)) =>
        /\ last.kind = "ok"
        /\ Flatten(last.tree) = Atoms(last.tokens)
        /\ Unparse(last.tree) = last.tokens
        /\ last.tokens = DocTokens => last.tree = DocTree

(* the tokens that are the text of their atom *)
Canonical(tokens) ==
    \A i \in 1..Len(tokens) :
        tokens[i] \notin {Open, Close} => Written(AtomOf(tokens[i])) = tokens[i]

(* C19: for every list of tokens that is one balanced expression, except   *)
(* the single token define or lambda (for which parse raises               *)
(* SchemeSyntaxError), parse returns the tree whose nesting mirrors the    *)
(* parentheses, each other token being one atom (integer, else float, else *)
(* symbol), in token order: flattening the tree gives the input with each  *)
(* token replaced by its atom, and gives back the tokens themselves when   *)
(* every number among them is written as Python writes it (05 and 5. come  *)
(* back as 5 and 5.0); the tokens of (+ 2 (- 5 3) 7 8) parse to            *)
(* ["+", 2, ["-", 5, 3], 7, 8].                                            *)
C19_Parse ==
    (last.op = "parse" /\ OneExpression(last.tokens)) =>
        IF last.tokens \in {<<DefineToken>>, <<LambdaToken>>}
        THEN last.kind = "SchemeSyntaxError"
        ELSE /\ last.kind = "ok"
             /\ Flatten(last.tree) = Atoms(last.tokens)
             /\ Canonical(last.tokens) => Unparse(last.tree) = last.tokens
             /\ last.tokens = DocTokens => last.tree = DocTree

(* the tokens of (+ 2 (- 5 3) 7 8) have been parsed to a list that holds a *)
(* list                                                                    *)
C19_Witness ==
    /\ last.op = "parse" /\ last.tokens = DocTokens
    /\ last.kind = "ok" /\ last.tree = DocTree

---------------------------------------------------------------------------
(* C21: for every source text s, tokenizing s, joining the tokens with     *)
(* single spaces and tokenizing the joined text gives the same tokens as   *)
(* tokenizing s.                                                           *)
C21_Rejoin ==
    last.op = "tokenize" => tokenize(Joined(last.out)) = last.out

(* a text whose spacing the joined tokens do not reproduce (a comment, a   *)
(* line break, a parenthesis written next to a name) has been tokenized to *)
(* three tokens                                                            *)
C21_Witness ==
    /\ last.op = "tokenize"
    /\ last.source = <<"(", "x", "\n", ")", ";">>
    /\ last.out = <<Open, <<"x">>, Close>>
    /\ Joined(last.out) = <<"(", " ", "x", " ", ")">>

---------------------------------------------------------------------------
(* An application of a builtin: the operator and every operand have been   *)
(* evaluated, and the operator's value is the builtin of that name.        *)
AppliesBuiltin(L, i, name) ==
    /\ L[i].tree.k = "list" /\ Size(L[i].tree) >= 1
    /\ IsSym(At(L[i].tree, 0), name)
    /\ Len(SubCalls(L, i)) >= Size(L[i].tree)
    /\ \A n \in 1..Size(L[i].tree) :
          /\ L[SubCalls(L, i)[n]].tree = At(L[i].tree, n - 1)
          /\ L[RetOf(L, SubCalls(L, i)[n])].kind = "ok"
    /\ L[RetOf(L, SubCalls(L, i)[1])].val = VBuiltin(name)

(* the values of the operands, and the event after which the builtin runs *)
ArgVals(L, i) ==
    [n \in 1..(Size(L[i].tree) - 1) |-> L[RetOf(L, SubCalls(L, i)[n + 1])].val]

ArgsDone(L, i) == L[RetOf(L, SubCalls(L, i)[Size(L[i].tree)])]

RECURSIVE ElemsOfAll(_, _)
ElemsOfAll(ps, lists) ==
    IF lists = <<>> THEN <<>>
    ELSE ListElems(ps, Head(lists)) \o ElemsOfAll(ps, Tail(lists))

(* C22, as claimed: for any n >= 0 proper lists, whatever values they      *)
(* hold, append returns a new proper list that holds, in order, the very   *)
(* elements of the first list, then of the second, and so on, its length   *)
(* being the sum of the lengths, and leaves the lists unchanged; it raises *)
(* SchemeEvaluationError when an argument is not a proper list.            *)
C22_Claimed ==
    \A i \in CallsOf(Log) :
        AppliesBuiltin(Log, i, "append") =>
            LET lists == ArgVals(Log, i)
                ps == ArgsDone(Log, i).pairs
                r == Log[RetOf(Log, i)]
            IN  IF \A n \in 1..Len(lists) : ListEnd(ps, lists[n]) = VNil
                THEN /\ r.kind = "ok"
                     /\ ListEnd(r.pairs, r.val) = VNil
                     /\ ListElems(r.pairs, r.val) = ElemsOfAll(ps, lists)
                     /\ r.val.t = "pair" => r.val.id > Len(ps)
                     /\ SubSeq(r.pairs, 1, Len(ps)) = ps
                ELSE r.kind = "SchemeEvaluationError"

---------------------------------------------------------------------------
(* C23: for a proper list L of n elements and an integer i, (list-ref L i) *)
(* returns the element at position i, counted from 0, when 0 <= i < n, and *)
(* raises SchemeEvaluationError when i >= n or i < 0; it raises            *)
(* SchemeEvaluationError as well when its first argument is the empty list *)
(* or any other value that is not a Pair.                                  *)
C23_ListRef ==
    \A i \in CallsOf(Log) :
        (AppliesBuiltin(Log, i, "list-ref") /\ Size(Log[i].tree) = 3) =>
            LET dalist == ArgVals(Log, i)[1]
                ind == ArgVals(Log, i)[2]
                ps == ArgsDone(Log, i).pairs
                elems == ListElems(ps, dalist)
                r == Log[RetOf(Log, i)]
            IN  /\ (ListEnd(ps, dalist) = VNil /\ ind.t = "num") =>
                      IF 0 <= ind.n /\ ind.n < Len(elems)
                      THEN r.kind = "ok" /\ r.val = elems[ind.n + 1]
                      ELSE r.kind = "SchemeEvaluationError"
                /\ dalist.t # "pair" => r.kind = "SchemeEvaluationError"

(* the last element of a list of three has been returned for index 2 *)
C23_Witness ==
    \E i \in CallsOf(Log) :
        /\ AppliesBuiltin(Log, i, "list-ref") /\ Size(Log[i].tree) = 3
        /\ ListEnd(ArgsDone(Log, i).pairs, ArgVals(Log, i)[1]) = VNil
        /\ Len(ListElems(ArgsDone(Log, i).pairs, ArgVals(Log, i)[1])) = 3
        /\ ArgVals(Log, i)[2] = VNum(2)
        /\ Log[RetOf(Log, i)].kind = "ok"
        /\ Log[RetOf(Log, i)].val = VNil

---------------------------------------------------------------------------
(* C24, as claimed: every builtin procedure, applied to any finite         *)
(* sequence of values of any length, zero included, returns a value or     *)
(* raises SchemeEvaluationError, and raises nothing else.                  *)
C24_Claimed ==
    \A i \in CallsOf(Log) : \A name \in BuiltinNames :
        AppliesBuiltin(Log, i, name) =>
            Log[RetOf(Log, i)].kind \in {"ok", "SchemeEvaluationError"}

---------------------------------------------------------------------------
(* C25, as claimed: for every source text, the empty text, a text that is  *)
(* only a comment and special forms with too few or wrongly shaped         *)
(* operands among them, tokenizing, parsing and evaluating it in a fresh   *)
(* environment ends with a value or with SchemeSyntaxError,                *)
(* SchemeNameError or SchemeEvaluationError; nothing else is raised.       *)
C25_Claimed ==
    last.op = "evaluate_file" =>
        last.kind \in {"ok", "SchemeSyntaxError", "SchemeNameError",
                       "SchemeEvaluationError"}

---------------------------------------------------------------------------
(* the k-th Fibonacci number *)
RECURSIVE Fibonacci(_)
Fibonacci(k) == IF k <= 1 THEN k ELSE Fibonacci(k - 1) + Fibonacci(k - 2)

(* the frame defines fib as the closure (define (fib n) ...) makes there *)
FibDefinedIn(fs, f) ==
    /\ "fib" \in DOMAIN fs[f].variables
    /\ fs[f].variables["fib"] = VFn(Lst(<<N>>), At(DefineFib, 2), f)

(* C26: after (define (fib n) (if (<= n 1) n (+ (fib (- n 1))             *)
(* (fib (- n 2))))) has been evaluated in an environment, the evaluation   *)
(* of (fib k) in that environment returns, and returns the k-th Fibonacci  *)
(* number, for every k in 0..10; (fib 10) returns 55.                      *)
C26_Fib ==
    /\ \A k \in FibArguments :
          (/\ last.op = "evaluate" /\ last.tree = FibOf(Num(k))
           /\ last.frame # None
           /\ FibDefinedIn(last.log[1].frames, last.frame)) =>
              /\ last.kind = "ok"
              /\ last.val = VNum(Fibonacci(k))
              /\ k = 10 => last.val = VNum(55)
    /\ \A k \in FibArguments :
          (last.op = "evaluate" /\ last.tree = DefineAndCallFib(k)) =>
              last.kind = "ok" /\ last.val = VNum(Fibonacci(k))

(* (fib 10) has returned 55 in the frame where fib was defined by an       *)
(* earlier call                                                            *)
C26_Witness ==
    /\ last.op = "evaluate" /\ last.tree = FibOf(Num(10))
    /\ last.frame # None
    /\ FibDefinedIn(last.log[1].frames, last.frame)
    /\ last.kind = "ok" /\ last.val = VNum(55)

(* the characters a name must not have *)
Forbidden == {"(", ")", " ", "\t", "\n"} \cup NonAscii

Rejected(name) == \E i \in 1..Len(Chars(name)) : Chars(name)[i] \in Forbidden

(* (define name expr) or (define (name params...) body) *)
IsDefineOf(tree) ==
    /\ IsForm(tree, "define", 3)
    /\ \/ At(tree, 1).k = "sym"
       \/ IsShortDefine(tree)

TargetOf(tree) ==
    IF At(tree, 1).k = "sym" THEN At(tree, 1).s ELSE At(At(tree, 1), 0).s

(* name is bound in frame f of fs2 as it is in fs1 *)
SameBinding(fs1, fs2, f, name) ==
    /\ name \in DOMAIN fs1[f].variables <=> name \in DOMAIN fs2[f].variables
    /\ name \in DOMAIN fs1[f].variables =>
          fs2[f].variables[name] = fs1[f].variables[name]

(* C27 as claimed: in both forms of define, a target name with a           *)
(* parenthesis, a whitespace character (space, tab, newline) or a          *)
(* character outside ASCII is rejected with an evaluation error and no     *)
(* binding is created; a name with none of these is accepted: when the     *)
(* evaluation of the expression returns, the define returns its value and  *)
(* binds the name to it in the current frame.                              *)
C27_Claimed ==
    \A i \in CallsOf(Log) :
        IsDefineOf(Log[i].tree) =>
            LET e == Log[i]
                r == Log[RetOf(Log, i)]
                name == TargetOf(e.tree)
                subs == SubCalls(Log, i)
            IN  IF Rejected(name)
                THEN /\ r.kind = "SchemeEvaluationError"
                     /\ SameBinding(e.frames, r.frames, e.frame, name)
                ELSE (\A n \in 1..Len(subs) : Log[RetOf(Log, subs[n])].kind = "ok") =>
                        /\ r.kind = "ok"
                        /\ name \in DOMAIN r.frames[e.frame].variables
                        /\ r.frames[e.frame].variables[name] = r.val

(* the token #t or #f *)
Literal(tree) == tree = True \/ tree = False

(* the value of operand n of the call at L[i]: a literal token is its own  *)
(* value; another operand has the value its evaluation returned, the       *)
(* operands that are no literals being evaluated in order                  *)
Rank(ops, n) == Cardinality({m \in 1..n : ~Literal(ops[m])})

Reached(L, i, ops, n) == Literal(ops[n]) \/ Rank(ops, n) <= Len(SubCalls(L, i))

OperandVal(L, i, ops, n) ==
    IF Literal(ops[n]) THEN VStr(ops[n].s)
    ELSE L[RetOf(L, SubCalls(L, i)[Rank(ops, n)])].val

SubsReturn(L, i) ==
    \A n \in 1..Len(SubCalls(L, i)) : L[RetOf(L, SubCalls(L, i)[n])].kind = "ok"

(* the call at L[i] of (if cond a b) uses a literal in the place of cond,  *)
(* a or b as the value                                                     *)
LiteralIf(L, i) ==
    LET tree == L[i].tree
        r == L[RetOf(L, i)]
        subs == SubCalls(L, i)
        ops == <<At(tree, 1)>>
        k == Rank(ops, 1)
        taken == IF OperandVal(L, i, ops, 1) = VStr("#t") THEN 2 ELSE 3
    IN  (Len(subs) >= k /\ (k = 1 => L[RetOf(L, subs[1])].kind = "ok")) =>
            IF Literal(At(tree, taken))
            THEN /\ Len(subs) = k
                 /\ r.kind = "ok" /\ r.val = VStr(At(tree, taken).s)
            ELSE /\ Len(subs) = k + 1
                 /\ L[subs[k + 1]].tree = At(tree, taken)
                 /\ r.kind = L[RetOf(L, subs[k + 1])].kind
                 /\ r.val = L[RetOf(L, subs[k + 1])].val

(* the call at L[i] of (and ...) or (or ...) takes a literal operand as    *)
(* its own value: the first operand whose value is `stop` ends the call    *)
LiteralAndOr(L, i, stop, other) ==
    LET ops == Operands(L[i].tree)
        r == L[RetOf(L, i)]
        subs == SubCalls(L, i)
        stops == {n \in 1..Len(ops) :
                    Reached(L, i, ops, n) /\ OperandVal(L, i, ops, n) = VStr(stop)}
        first == CHOOSE n \in stops : \A m \in stops : n <= m
    IN  SubsReturn(L, i) =>
            /\ r.kind = "ok"
            /\ IF stops # {}
               THEN r.val = VStr(stop) /\ Len(subs) = Rank(ops, first)
               ELSE r.val = VStr(other) /\ Len(subs) = Rank(ops, Len(ops))

(* C28: where if has its condition and its branches, and where and / or    *)
(* have their operands, a token that is exactly #t or #f is the boolean    *)
(* itself and is never evaluated as a name, whatever the frames of the     *)
(* chain bind #t and #f to.                                                *)
C28_Literals ==
    \A i \in CallsOf(Log) :
        LET tree == Log[i].tree
            subs == SubCalls(Log, i)
        IN  /\ (IsForm(tree, "if", 4) \/ HeadIs(tree, "and") \/ HeadIs(tree, "or")) =>
                  \A n \in 1..Len(subs) : ~Literal(Log[subs[n]].tree)
            /\ IsForm(tree, "if", 4) => LiteralIf(Log, i)
            /\ HeadIs(tree, "and") => LiteralAndOr(Log, i, "#f", "#t")
            /\ HeadIs(tree, "or") => LiteralAndOr(Log, i, "#t", "#f")

(* (if #t #f 1) has returned #f in a frame that binds #t to 5 and #f to 6  *)
C28_Witness ==
    \E i \in CallsOf(Log) :
        /\ Log[i].tree = If(True, False, Num(1))
        /\ Log[i].frame # 1
        /\ "#t" \in DOMAIN Log[i].frames[Log[i].frame].variables
        /\ Log[i].frames[Log[i].frame].variables["#t"] = VNum(5)
        /\ Log[i].frames[Log[i].frame].variables["#f"] = VNum(6)
        /\ Log[RetOf(Log, i)].kind = "ok"
        /\ Log[RetOf(Log, i)].val = VStr("#f")

SamePairs(ps1, ps2) ==
    /\ Len(ps1) <= Len(ps2)
    /\ \A j \in 1..Len(ps1) : ps2[j] = ps1[j]

(* the Pairs a list is made of: v, its cdr, the cdr of that, ... *)
RECURSIVE SpineIds(_, _)
SpineIds(ps, v) ==
    IF v.t = "pair" THEN {v.id} \cup SpineIds(ps, ps[v.id].cdr) ELSE {}

(* C30: a Pair keeps the car and the cdr it was made with: from one event  *)
(* of an evaluation to the next, and from the last event to the state the  *)
(* call leaves, every Pair that exists is unchanged, whatever special form *)
(* or builtin runs (cons, list, car, cdr, list?, length, list-ref, append, *)
(* set!, define); the Pair cons returns and the Pairs that make the list   *)
(* that list or append returns did not exist before the call.              *)
C30_PairsImmutable ==
    /\ \A k \in 1..(Len(Log) - 1) : SamePairs(Log[k].pairs, Log[k + 1].pairs)
    /\ Log # <<>> => \A j \in 1..Len(pairs) : pairs[j] = Log[Len(Log)].pairs[j]
    /\ \A i \in CallsOf(Log) :
          LET r == Log[RetOf(Log, i)]
          IN  /\ (HeadIs(Log[i].tree, "cons") /\ r.kind = "ok") =>
                    r.val.t = "pair" /\ r.val.id > Len(Log[i].pairs)
              /\ (HeadIs(Log[i].tree, "list") /\ r.kind = "ok") =>
                    \A id \in SpineIds(r.pairs, r.val) : id > Len(Log[i].pairs)
              /\ (AppliesBuiltin(Log, i, "append") /\ r.kind = "ok") =>
                    \A id \in SpineIds(r.pairs, r.val) :
                        id > Len(ArgsDone(Log, i).pairs)

(* (append x x) has returned a list of four new Pairs where x is a list of *)
(* two Pairs, which are as they were                                       *)
C30_Witness ==
    \E i \in CallsOf(Log) :
        /\ Log[i].tree = AppendOf(<<X, X>>)
        /\ AppliesBuiltin(Log, i, "append")
        /\ Log[RetOf(Log, i)].kind = "ok"
        /\ ArgVals(Log, i)[1].t = "pair"
        /\ Cardinality(SpineIds(Log[i].pairs, ArgVals(Log, i)[1])) = 2
        /\ Cardinality(SpineIds(Log[RetOf(Log, i)].pairs, Log[RetOf(Log, i)].val)) = 4
        /\ SamePairs(Log[i].pairs, Log[RetOf(Log, i)].pairs)

====
